---- MODULE Spec2Model ----
(***************************************************************************)
(* A model of promisesPromises (src/src/process_data.py):                  *)
(*   - _remove_repeating_slogans, the recursive slogan remover, as a step  *)
(*     machine with an explicit call stack (SpecSlogan);                   *)
(*   - clean_pdf_text, the cascade of ten regular-expression               *)
(*     substitutions, one step per rule (SpecClean);                       *)
(*   - Program.retrieve_text_from_pdf and Program.create_doc_from_text     *)
(*     with the two cache directories (SpecPipeline).                      *)
(* A text is a sequence of one-character strings.                          *)
(***************************************************************************)
EXTENDS Integers, Sequences, FiniteSets, TLC

(***************************************************************************)
(* Parameters of _remove_repeating_slogans.  The source sets               *)
(* characters_per_page = 2200, end_snippet_size = 34 and                   *)
(* max_snippet_size = 200 (process_data.py lines 449-451); texts of that   *)
(* length cannot be enumerated, so the model keeps the three parameters    *)
(* in the same order (end <= max < page) at a small scale.  They are       *)
(* bounds of the model, not the values of the source.                      *)
(***************************************************************************)
characters_per_page == 4

end_snippet_size == 2

max_snippet_size == 3

\* slogan_occurrence = 0.95 (line 452), kept as a percentage.
slogan_occurrence_pct == 95

\* The longest input text that is enumerated.
MaxTextLen == 9

\* Repetitions of the slogan phrase in the scenario text.
SloganRepeats == 6

Alphabet == {"a", "b"}

\* An optional argument: <<>> when it is not passed (None), <<n>> otherwise.
None == <<>>

Texts == UNION {[1..n -> Alphabet] : n \in 0..MaxTextLen}

SloganPhrase == <<"a">>

UniqueSentence == <<"c", "c">>

RECURSIVE Repeat(_, _)
Repeat(s, n) == IF n = 0 THEN <<>> ELSE s \o Repeat(s, n - 1)

\* The scenario of the specification at the model's scale: many repetitions
\* of one phrase shorter than end_snippet_size (the source's phrase has 18
\* characters, end_snippet_size is 34), then one unique sentence that is not
\* longer than max_snippet_size.
ScenarioText == Repeat(SloganPhrase, SloganRepeats) \o UniqueSentence

VARIABLES
    pc,          \* "call" | "loop" | "done" | "raised"
    text,        \* the text of the running call (argument, local and result)
    start_size,  \* the start_size argument of the pending call
    stack,       \* one frame per active call: the loop variable and len(text) at entry
    sl_input,    \* history: the text of the outermost call
    sl_start,    \* history: the start_size of the outermost call
    scanned,     \* history: the <<text, snippet_size>> pairs enumerated so far
    last_step,   \* history: what the last step did
    cl_input, cl_text, cl_rule, cl_gone, cl_again,
    programs, text_file, doc_file, force, calls, extractions, pl_last,
    processed,   \* _programs_processed
    order,       \* _programs: the Program objects (indices of programs) in list order
    batch,       \* process_all_programs: where the running call is
    query,       \* history: the last call of the query API and how it ended
    completed,   \* history: a call of process_all_programs has run to its end
    file_path,   \* the path handed to the path parser
    parsed,      \* history: what the path parser returned
    walk,        \* the files os.walk yields, in order
    found_programs, \* identify_programs: its local list
    discovery,   \* identify_programs: where the running call is
    m_doc,       \* the doc handed to a metric
    m_result, ref_of, ref_names     \* history: the last metric called and how it ended

slogan_vars == <<pc, text, start_size, stack, sl_input, sl_start, scanned, last_step>>

clean_vars == <<cl_input, cl_text, cl_rule, cl_gone, cl_again>>

pipeline_vars == <<programs, text_file, doc_file, force, calls, extractions, pl_last>>

batch_vars == <<processed, order, batch, query, completed>>

path_vars == <<file_path, parsed>>

discovery_vars == <<walk, found_programs, discovery>>

metric_vars == <<m_doc, m_result>>

reference_vars == <<ref_of, ref_names>>

other_vars == <<batch_vars, path_vars, discovery_vars, metric_vars, reference_vars>>

vars == <<slogan_vars, clean_vars, pipeline_vars, other_vars>>

(***************************************************************************)
(* _remove_repeating_slogans: the pure pieces.                             *)
(***************************************************************************)

\* TooShort with the bound one too low.
TooShortToScan(t) == Len(t) < characters_per_page - 1

\* len(text) < characters_per_page (line 455).
TooShort(t) == Len(t) < characters_per_page

\* `if not start_size: start_size = max_snippet_size` (lines 459-460):
\* None and 0 are both falsy.
FirstSize(s) == IF s = None \/ s[1] = 0 THEN max_snippet_size ELSE s[1]

\* [text[i:i + snippet_size] for i in range(0, len(text) - snippet_size)]
\* (line 472): the windows at 0-based offsets 0 .. len - size - 1.
snippets(t, size) == [i \in 1..(Len(t) - size) |-> SubSeq(t, i, i + size - 1)]

Count(sn, x) == Cardinality({i \in DOMAIN sn : sn[i] = x})

FirstIndex(sn, x) == CHOOSE i \in DOMAIN sn : sn[i] = x /\ \A j \in 1..(i - 1) : sn[j] # x

\* The order of Counter.most_common: by count, largest first; equal counts
\* in the order of first insertion.
Before(sn, x, y) ==
    \/ Count(sn, x) > Count(sn, y)
    \/ Count(sn, x) = Count(sn, y) /\ FirstIndex(sn, x) < FirstIndex(sn, y)

RECURSIVE MostCommonFrom(_, _, _)
MostCommonFrom(sn, S, n) ==
    IF n = 0 \/ S = {} THEN <<>>
    ELSE LET x == CHOOSE c \in S : \A y \in S \ {c} : Before(sn, c, y)
         IN  <<[snippet |-> x, count |-> Count(sn, x)]>> \o MostCommonFrom(sn, S \ {x}, n - 1)

\* Counter(snippets).most_common(n) (line 475).
most_common(sn, n) == MostCommonFrom(sn, {sn[i] : i \in DOMAIN sn}, n)

\* TopTwoEqual with the comparison left out.
NeverEqual(tmc) == FALSE

\* two_most_common[0][1] == two_most_common[1][1] (line 478).
TopTwoEqual(tmc) == tmc[1].count = tmc[2].count

\* occurrences_for_slogan > two_most_common[0][1] (line 482) with
\* occurrences_for_slogan = len(text) / characters_per_page * slogan_occurrence
\* (lines 464-465), len(text) taken at the entry of the call.
BelowThreshold(entry_len, count) ==
    entry_len * slogan_occurrence_pct > count * characters_per_page * 100

\* replace that stops after the first occurrence (str.replace(old, '', 1)).
RECURSIVE replace_first(_, _)
replace_first(t, old) ==
    IF Len(t) < Len(old) THEN t
    ELSE IF SubSeq(t, 1, Len(old)) = old THEN SubSeq(t, Len(old) + 1, Len(t))
    ELSE <<Head(t)>> \o replace_first(Tail(t), old)

\* str.replace(old, ''): one pass from the left over non-overlapping
\* occurrences (line 488).
RECURSIVE replace(_, _)
replace(t, old) ==
    IF Len(t) < Len(old) THEN t
    ELSE IF SubSeq(t, 1, Len(old)) = old THEN replace(SubSeq(t, Len(old) + 1, Len(t)), old)
    ELSE <<Head(t)>> \o replace(Tail(t), old)

(***************************************************************************)
(* _remove_repeating_slogans: the steps.                                   *)
(***************************************************************************)

Top == stack[Len(stack)]

SetSize(size) == [stack EXCEPT ![Len(stack)].snippet_size = size]

NoStep == [kind |-> "none", size |-> 0, before |-> <<>>, snippet |-> <<>>, count |-> 0, second |-> 0, entry_len |-> 0]

Step(kind, size, tmc, entry_len) ==
    [kind |-> kind, size |-> size, before |-> text,
     snippet |-> IF Len(tmc) > 0 THEN tmc[1].snippet ELSE <<>>,
     count |-> IF Len(tmc) > 0 THEN tmc[1].count ELSE 0,
     second |-> IF Len(tmc) > 1 THEN tmc[2].count ELSE 0,
     entry_len |-> entry_len]

InitSlogan ==
    /\ pc = "call"
    /\ text \in Texts \cup {ScenarioText}
    /\ start_size \in {None} \cup {<<n>> : n \in 0..(max_snippet_size + 1)}
    /\ stack = <<>>
    /\ sl_input = text
    /\ sl_start = start_size
    /\ scanned = {}
    /\ last_step = NoStep
    /\ cl_input = <<>> /\ cl_text = <<>> /\ cl_rule = 0 /\ cl_gone = {} /\ cl_again = <<>>
    /\ programs = <<>> /\ text_file = <<>> /\ doc_file = <<>> /\ force = FALSE
    /\ calls = <<>> /\ extractions = <<>> /\ pl_last = <<>>
    /\ processed = FALSE /\ order = <<>> /\ batch = <<>> /\ query = <<>> /\ completed = FALSE
    /\ file_path = <<>> /\ parsed = <<>>
    /\ walk = <<>> /\ found_programs = <<>> /\ discovery = <<>>
    /\ m_doc = <<>> /\ m_result = <<>>
    /\ ref_of = <<>> /\ ref_names = <<>>

\* `return text`: the caller's `text = _remove_repeating_slogans(...)` takes
\* the value and its loop goes on; the outermost call is done.
Return(frames) ==
    /\ stack' = frames
    /\ pc' = IF frames = <<>> THEN "done" ELSE "loop"

\* Lines 455-456.
ReturnShort ==
    /\ pc = "call"
    /\ TooShort(text)
    /\ Return(stack)
    /\ last_step' = Step("short", 0, <<>>, Len(text))
    /\ UNCHANGED <<text, start_size, sl_input, sl_start, scanned, clean_vars, pipeline_vars, other_vars>>

\* Lines 459-468: the call goes on to its loop.
EnterLoop ==
    /\ pc = "call"
    /\ ~TooShort(text)
    /\ stack' = Append(stack, [snippet_size |-> FirstSize(start_size), entry_len |-> Len(text)])
    /\ pc' = "loop"
    /\ last_step' = Step("enter", FirstSize(start_size), <<>>, Len(text))
    /\ UNCHANGED <<text, start_size, sl_input, sl_start, scanned, clean_vars, pipeline_vars, other_vars>>

Scanning == pc = "loop" /\ Top.snippet_size >= end_snippet_size

TwoMostCommon == most_common(snippets(text, Top.snippet_size), 2)

Scan == scanned' = scanned \cup {<<text, Top.snippet_size>>}

\* Lines 475-478: two_most_common has fewer than two entries, and indexing
\* it raises IndexError, which no caller handles.
RaiseIndexError ==
    /\ Scanning
    /\ Len(TwoMostCommon) < 2
    /\ pc' = "raised"
    /\ stack' = <<>>
    /\ Scan
    /\ last_step' = Step("raise", Top.snippet_size, TwoMostCommon, Top.entry_len)
    /\ UNCHANGED <<text, start_size, sl_input, sl_start, clean_vars, pipeline_vars, other_vars>>

\* Lines 478-479.
ContinueTie ==
    /\ Scanning
    /\ Len(TwoMostCommon) = 2
    /\ TopTwoEqual(TwoMostCommon)
    /\ stack' = SetSize(Top.snippet_size - 1)
    /\ Scan
    /\ last_step' = Step("tie", Top.snippet_size, TwoMostCommon, Top.entry_len)
    /\ UNCHANGED <<pc, text, start_size, sl_input, sl_start, clean_vars, pipeline_vars, other_vars>>

\* Lines 482-483.
ContinueBelow ==
    /\ Scanning
    /\ Len(TwoMostCommon) = 2
    /\ ~TopTwoEqual(TwoMostCommon)
    /\ BelowThreshold(Top.entry_len, TwoMostCommon[1].count)
    /\ stack' = SetSize(Top.snippet_size - 1)
    /\ Scan
    /\ last_step' = Step("below", Top.snippet_size, TwoMostCommon, Top.entry_len)
    /\ UNCHANGED <<pc, text, start_size, sl_input, sl_start, clean_vars, pipeline_vars, other_vars>>

\* Lines 488-491: the replacement and the recursive call with
\* snippet_size - 1; the loop of this call goes on with snippet_size - 1
\* when the call has returned.
RemoveAndRecurse ==
    /\ Scanning
    /\ Len(TwoMostCommon) = 2
    /\ ~TopTwoEqual(TwoMostCommon)
    /\ ~BelowThreshold(Top.entry_len, TwoMostCommon[1].count)
    /\ text' = replace(text, TwoMostCommon[1].snippet)
    /\ start_size' = <<Top.snippet_size - 1>>
    /\ stack' = SetSize(Top.snippet_size - 1)
    /\ pc' = "call"
    /\ Scan
    /\ last_step' = Step("remove", Top.snippet_size, TwoMostCommon, Top.entry_len)
    /\ UNCHANGED <<sl_input, sl_start, clean_vars, pipeline_vars, other_vars>>

\* Line 493: the loop is exhausted.
LoopEnd ==
    /\ pc = "loop"
    /\ Top.snippet_size < end_snippet_size
    /\ Return(SubSeq(stack, 1, Len(stack) - 1))
    /\ last_step' = Step("end", Top.snippet_size, <<>>, Top.entry_len)
    /\ UNCHANGED <<text, start_size, sl_input, sl_start, scanned, clean_vars, pipeline_vars, other_vars>>

NextSlogan ==
    \/ ReturnShort
    \/ EnterLoop
    \/ RaiseIndexError
    \/ ContinueTie
    \/ ContinueBelow
    \/ RemoveAndRecurse
    \/ LoopEnd

SpecSlogan == InitSlogan /\ [][NextSlogan]_vars

(***************************************************************************)
(* clean_pdf_text: the characters, the ten patterns and the cascade.       *)
(* One character stands for each class the patterns tell apart.            *)
(***************************************************************************)

LETTER == "a"

DIGIT == "1"

SPACE == " "

NEWLINE == "\n"

TAB == "\t"

FORMFEED == "\f"

DOT == "."

HYPHEN == "-"

\* The control character \x02 of hyphenation_pattern.
STX == "STX"

\* One of the glyphs of special_char_pattern.
BULLET == "BULLET"

Characters == {LETTER, DIGIT, SPACE, NEWLINE, TAB, FORMFEED, DOT, HYPHEN, STX, BULLET}

\* \w, \d and \s of Python's re on these characters.
Word == {LETTER, DIGIT} \cup Alphabet \cup {"c"}

Digit == {DIGIT}

Space == {SPACE, NEWLINE, TAB, FORMFEED}

\* {9,} of large_numbers_pattern (line 677).
large_numbers_min == 9

\* The longest enumerated piece of text, and the longest block of digits
\* put on both sides of it.
MaxCoreLen == 3

MaxPad == 4

\* The last index of the longest run of characters of class S that starts
\* at i; i - 1 when t[i] is not in S.
RunEnd(t, i, S) ==
    LET ends == {e \in i..Len(t) : \A k \in i..e : t[k] \in S}
    IN  IF ends = {} THEN i - 1 ELSE CHOOSE e \in ends : \A f \in ends : f <= e

Holds(t, i, j, c) == \E k \in i..j : t[k] = c

LastOf(t, i, j, c) == CHOOSE k \in i..j : t[k] = c /\ \A m \in (k + 1)..j : t[m] # c

At(t, i, S) == i >= 1 /\ i <= Len(t) /\ t[i] \in S

\* special_char_pattern (line 658).
SpecialCharEnd(t, i) == IF t[i] = BULLET THEN i ELSE 0

\* page_num_pattern \n+\s*\d+\s*\n+ (line 673): white space that starts with
\* a newline, the digits, and the white space after them up to its last newline.
PageNumEnd(t, i) ==
    LET w == RunEnd(t, i, Space)
        d == RunEnd(t, w + 1, Digit)
        v == RunEnd(t, d + 1, Space)
    IN  IF t[i] = NEWLINE /\ d > w /\ Holds(t, d + 1, v, NEWLINE)
        THEN LastOf(t, d + 1, v, NEWLINE) ELSE 0

\* hyphenation_pattern -\x02|(?<=\w)-\s*\n\s*(?=\w+) (line 684).
HyphenationEnd(t, i) ==
    LET w == RunEnd(t, i + 1, Space)
    IN  IF t[i] # HYPHEN THEN 0
        ELSE IF At(t, i + 1, {STX}) THEN i + 1
        ELSE IF At(t, i - 1, Word) /\ Holds(t, i + 1, w, NEWLINE) /\ At(t, w + 1, Word) THEN w
        ELSE 0

\* newline_pattern (?<=\w)(\s*\n\s*)+(?=\w) (line 661).
NewlineEnd(t, i) ==
    LET w == RunEnd(t, i, Space)
    IN  IF At(t, i - 1, Word) /\ Holds(t, i, w, NEWLINE) /\ At(t, w + 1, Word) THEN w ELSE 0

\* tab_pattern (line 670).
TabEnd(t, i) == IF t[i] = TAB THEN i ELSE 0

\* double_dot_pattern (\s*\.\s*)+ (line 667): a run of white space and dots
\* with a dot in it.
DoubleDotEnd(t, i) ==
    LET r == RunEnd(t, i, Space \cup {DOT})
    IN  IF Holds(t, i, r, DOT) THEN r ELSE 0

\* form_feed_pattern (line 681).
FormFeedEnd(t, i) == IF t[i] = FORMFEED THEN i ELSE 0

\* large_numbers_pattern [\d\s\n]{9,} (line 677).
LargeNumbersEnd(t, i) ==
    LET r == RunEnd(t, i, Digit \cup Space)
    IN  IF r - i + 1 >= large_numbers_min THEN r ELSE 0

\* single_char_pattern (?<=\s)\w(?=\s|$) (line 689).
SingleCharEnd(t, i) ==
    IF t[i] \in Word /\ At(t, i - 1, Space) /\ (i = Len(t) \/ At(t, i + 1, Space)) THEN i ELSE 0

\* double_space_pattern \s+ (line 664).
DoubleSpaceEnd(t, i) == IF t[i] \in Space THEN RunEnd(t, i, Space) ELSE 0

\* The patterns in the order in which clean_pdf_text applies them
\* (lines 417-426): the last index of the match of pattern k that starts at
\* i, 0 when there is none.
MatchEnd(k, t, i) ==
    CASE k = 1 -> SpecialCharEnd(t, i)
      [] k = 2 -> PageNumEnd(t, i)
      [] k = 3 -> HyphenationEnd(t, i)
      [] k = 4 -> NewlineEnd(t, i)
      [] k = 5 -> TabEnd(t, i)
      [] k = 6 -> DoubleDotEnd(t, i)
      [] k = 7 -> FormFeedEnd(t, i)
      [] k = 8 -> LargeNumbersEnd(t, i)
      [] k = 9 -> SingleCharEnd(t, i)
      [] k = 10 -> DoubleSpaceEnd(t, i)

\* The second argument of each sub call.
Replacement(k) ==
    CASE k = 3 -> <<>>
      [] k = 6 -> <<DOT, SPACE>>
      [] OTHER -> <<SPACE>>

\* Pattern.sub: the matches are taken from the left, each search starts
\* where the last match ended, look-behinds read the text as it was.
RECURSIVE SubFrom(_, _, _)
SubFrom(k, t, i) ==
    IF i > Len(t) THEN <<>>
    ELSE IF MatchEnd(k, t, i) >= i THEN Replacement(k) \o SubFrom(k, t, MatchEnd(k, t, i) + 1)
    ELSE <<t[i]>> \o SubFrom(k, t, i + 1)

sub(k, t) == SubFrom(k, t, 1)

\* Pattern.search(t) is not None.
HasMatch(k, t) == \E i \in 1..Len(t) : MatchEnd(k, t, i) >= i

\* str.strip().
strip(t) ==
    LET inside == {i \in 1..Len(t) : t[i] \notin Space}
    IN  IF inside = {} THEN <<>>
        ELSE SubSeq(t, CHOOSE i \in inside : \A j \in inside : i <= j,
                       CHOOSE i \in inside : \A j \in inside : j <= i)

RECURSIVE Cascade(_, _)
Cascade(k, t) == IF k = 0 THEN t ELSE sub(k, Cascade(k - 1, t))

\* clean_pdf_text (lines 403-428).
clean_pdf_text(t) == strip(Cascade(10, t))

CleanInputs ==
    {Repeat(<<DIGIT>>, n) \o core \o Repeat(<<DIGIT>>, n) :
        n \in 0..MaxPad, core \in UNION {[1..m -> Characters] : m \in 0..MaxCoreLen}}

InitClean ==
    /\ cl_input \in CleanInputs
    /\ cl_text = cl_input
    /\ cl_rule = 0
    /\ cl_gone = {}
    /\ cl_again = <<>>
    /\ pc = "idle" /\ text = <<>> /\ start_size = None /\ stack = <<>>
    /\ sl_input = <<>> /\ sl_start = None /\ scanned = {} /\ last_step = NoStep
    /\ programs = <<>> /\ text_file = <<>> /\ doc_file = <<>> /\ force = FALSE
    /\ calls = <<>> /\ extractions = <<>> /\ pl_last = <<>>
    /\ processed = FALSE /\ order = <<>> /\ batch = <<>> /\ query = <<>> /\ completed = FALSE
    /\ file_path = <<>> /\ parsed = <<>>
    /\ walk = <<>> /\ found_programs = <<>> /\ discovery = <<>>
    /\ m_doc = <<>> /\ m_result = <<>>
    /\ ref_of = <<>> /\ ref_names = <<>>

\* The k-th statement of clean_pdf_text.  cl_gone keeps the patterns that
\* had no match left right after their own substitution.
ApplyRule(k) ==
    /\ cl_rule = k - 1
    /\ cl_text' = sub(k, cl_text)
    /\ cl_rule' = k
    /\ cl_gone' = IF HasMatch(k, sub(k, cl_text)) THEN cl_gone ELSE cl_gone \cup {k}
    /\ UNCHANGED <<cl_input, cl_again, slogan_vars, pipeline_vars, other_vars>>

SpecialChars == ApplyRule(1)

PageNumbers == ApplyRule(2)

Hyphenations == ApplyRule(3)

Newlines == ApplyRule(4)

Tabs == ApplyRule(5)

DoubleDots == ApplyRule(6)

FormFeeds == ApplyRule(7)

LargeNumbers == ApplyRule(8)

SingleChars == ApplyRule(9)

DoubleSpaces == ApplyRule(10)

\* return string.strip() (line 428).
StripAndReturn ==
    /\ cl_rule = 10
    /\ cl_text' = strip(cl_text)
    /\ cl_rule' = 11
    /\ UNCHANGED <<cl_input, cl_gone, cl_again, slogan_vars, pipeline_vars, other_vars>>

\* clean_pdf_text called on its own result.
CleanAgain ==
    /\ cl_rule = 11
    /\ cl_again' = clean_pdf_text(cl_text)
    /\ cl_rule' = 12
    /\ UNCHANGED <<cl_input, cl_text, cl_gone, slogan_vars, pipeline_vars, other_vars>>

NextClean ==
    \/ SpecialChars
    \/ PageNumbers
    \/ Hyphenations
    \/ Newlines
    \/ Tabs
    \/ DoubleDots
    \/ FormFeeds
    \/ LargeNumbers
    \/ SingleChars
    \/ DoubleSpaces
    \/ StripAndReturn
    \/ CleanAgain

SpecClean == InitClean /\ [][NextClean]_vars

(***************************************************************************)
(* Program.retrieve_text_from_pdf and Program.create_doc_from_text with    *)
(* the two cache directories.                                              *)
(*                                                                         *)
(* An optional value (text, doc, the content of a file that may not        *)
(* exist) is None or <<value>>.  A name or a file name is a sequence of    *)
(* characters, so that a reference is built by concatenation as the f-     *)
(* string of the source builds it.                                         *)
(***************************************************************************)

\* The largest number of PDF extractions counted per program.
MaxExtractions == 2

\* The number of PDF files in the manifest directory.
NumPrograms == 2

\* _remove_repeating_slogans as a function: the same statements as the step
\* machine above, the recursion kept as recursion.  The result says whether
\* the call raised (IndexError at line 478) and, if not, the text returned.
RECURSIVE remove_repeating_slogans(_, _), SloganLoop(_, _, _)
remove_repeating_slogans(t, start) ==
    IF TooShort(t)
    THEN [raised |-> FALSE, text |-> t]
    ELSE SloganLoop(t, FirstSize(start), Len(t))

SloganLoop(t, size, entry_len) ==
    IF size < end_snippet_size
    THEN [raised |-> FALSE, text |-> t]
    ELSE LET tmc == most_common(snippets(t, size), 2) IN
         IF Len(tmc) < 2
         THEN [raised |-> TRUE, text |-> t]
         ELSE IF TopTwoEqual(tmc) \/ BelowThreshold(entry_len, tmc[1].count)
              THEN SloganLoop(t, size - 1, entry_len)
              ELSE LET r == remove_repeating_slogans(replace(t, tmc[1].snippet),
                                                     <<size - 1>>) IN
                   IF r.raised THEN r ELSE SloganLoop(r.text, size - 1, entry_len)

\* The PDF files of the manifest directory.
ManifestPaths ==
    <<"manifests/TK/21/VVD.pdf",
      "manifests/TK/21/VVD#concept.pdf",
      "manifests/TK/21/VVD#conflict.pdf">>

\* PdfReader(path).pages with page.extract_text() of every page.
PdfReader(path) ==
    CASE path = "manifests/TK/21/VVD.pdf" ->
            <<ScenarioText>>
      [] path = "manifests/TK/21/VVD#concept.pdf" ->
            << <<"a", "a", "b", "b", "b">> >>
      [] path = "manifests/TK/21/VVD#conflict.pdf" ->
            << <<"a">>, <<"a">>, <<"a">>, <<"a">>, <<"b", "b">> >>
      [] path = "manifests/TK/17/GL+PvdA.pdf" ->
            << <<"a", "b">> >>

\* text = ""; for page in reader.pages: text += page.extract_text() + "\n"
RECURSIVE JoinPages(_)
JoinPages(pages) ==
    IF pages = <<>> THEN <<>> ELSE Head(pages) \o <<NEWLINE>> \o JoinPages(Tail(pages))

extract_text_pdf(path) == JoinPages(PdfReader(path))

\* What extractor_type_date_party_tags returns for the path.
PathInfo(path) ==
    CASE path = "manifests/TK/21/VVD.pdf" ->
            [election_type |-> <<"T", "K">>, election_date |-> <<"2", "1">>,
             party |-> <<"V", "V", "D">>, tags |-> <<>>]
      [] path = "manifests/TK/21/VVD#concept.pdf" ->
            [election_type |-> <<"T", "K">>, election_date |-> <<"2", "1">>,
             party |-> <<"V", "V", "D">>,
             tags |-> << <<"c", "o", "n", "c", "e", "p", "t">> >>]
      [] path = "manifests/TK/21/VVD#conflict.pdf" ->
            [election_type |-> <<"T", "K">>, election_date |-> <<"2", "1">>,
             party |-> <<"V", "V", "D">>,
             tags |-> << <<"c", "o", "n", "f", "l", "i", "c", "t">> >>]
      [] path = "manifests/TK/17/GL+PvdA.pdf" ->
            [election_type |-> <<"T", "K">>, election_date |-> <<"1", "7">>,
             party |-> <<"G", "L", "+", "P", "v", "d", "A">>, tags |-> <<>>]

\* Program(**info, path=file_path): text and doc start as None.
Program(info, path) ==
    [election_type |-> info.election_type,
     party |-> info.party,
     election_date |-> info.election_date,
     tags |-> info.tags,
     path |-> path,
     text |-> None,
     doc |-> None]

\* tag[:3]
FirstThree(tag) == SubSeq(tag, 1, IF Len(tag) < 3 THEN Len(tag) ELSE 3)

\* for tag in self.tags: filename += f"#{tag[:3]}"
RECURSIVE TagSuffix(_)
TagSuffix(tags) ==
    IF tags = <<>> THEN <<>> ELSE <<"#">> \o FirstThree(Head(tags)) \o TagSuffix(Tail(tags))

\* The mistake of naming the cache file after the PDF file.
reference_by_path(p, ext) == p.path \o <<".">> \o ext

\* Program.reference(ext)
reference(p, ext) ==
    p.election_type \o <<"-">> \o p.party \o <<"-">> \o p.election_date
        \o TagSuffix(p.tags) \o <<".">> \o ext

txt == <<"t", "x", "t">>

spacy == <<"s", "p", "a", "c", "y">>

\* nlp(text): the annotation of a text.
nlp(t) == [text |-> t]

\* The text retrieve_text_from_pdf computes from the PDF, when the slogan
\* remover returns.
ProcessedText(path) ==
    clean_pdf_text(remove_repeating_slogans(extract_text_pdf(path), None).text)

\* A text written by an earlier run that is no longer what the PDF gives.
StaleText == <<"b", "b", "b">>

\* What a text cache file left by an earlier run may hold: f.write puts a
\* cleaned text there, which has no line break, so f.read gives it back
\* character by character.
CachedTexts ==
    {StaleText} \cup
    {ProcessedText(ManifestPaths[k]) : k \in
        {n \in DOMAIN ManifestPaths :
            ~remove_repeating_slogans(extract_text_pdf(ManifestPaths[n]), None).raised}}

CachedDocs == {nlp(t) : t \in CachedTexts}

Optional(S) == {None} \cup {<<v>> : v \in S}

\* The mistaken condition `os.path.exists(path) and FORCE_REPROCESSING`.
ReprocessUnlessForced(files, ref) == files[ref] # None /\ force

\* os.path.exists(path) and not FORCE_REPROCESSING
UseCache(files, ref) == files[ref] # None /\ ~force

\* The state a call starts from, kept for the frame conditions.
Snapshot ==
    [programs |-> programs, text_file |-> text_file, doc_file |-> doc_file,
     extractions |-> extractions]

NoCall == [op |-> "none", program |-> 0, outcome |-> "none", before |-> <<>>]

Called(op, i, outcome, log) ==
    /\ pl_last' = [op |-> op, program |-> i, outcome |-> outcome, before |-> Snapshot]
    /\ calls' = log

\* process_all_programs is not running.
NotRunning == [pc |-> "idle", pos |-> 0, raised |-> FALSE, called |-> {}]

\* No call of the query API has been made.
NoQuery == [fn |-> "none", outcome |-> "none"]

\* identify_programs has found NumPrograms PDF files; the cache directories
\* hold what earlier runs left there.
InitPipeline ==
    /\ \E found \in [1..NumPrograms -> DOMAIN ManifestPaths] :
          /\ \A i, j \in 1..NumPrograms : i < j => found[i] < found[j]
          /\ programs = [i \in 1..NumPrograms |->
                            Program(PathInfo(ManifestPaths[found[i]]), ManifestPaths[found[i]])]
    /\ text_file \in [{reference(programs[i], txt) : i \in 1..NumPrograms} -> Optional(CachedTexts)]
    /\ doc_file \in [{reference(programs[i], spacy) : i \in 1..NumPrograms} -> Optional(CachedDocs)]
    /\ force \in BOOLEAN
    /\ calls = <<>>
    /\ extractions = [i \in 1..NumPrograms |-> 0]
    /\ pl_last = NoCall
    /\ pc = "idle" /\ text = <<>> /\ start_size = None /\ stack = <<>>
    /\ sl_input = <<>> /\ sl_start = None /\ scanned = {} /\ last_step = NoStep
    /\ cl_input = <<>> /\ cl_text = <<>> /\ cl_rule = 0 /\ cl_gone = {} /\ cl_again = <<>>
    /\ processed = FALSE /\ order = [i \in 1..NumPrograms |-> i]
    /\ batch = NotRunning /\ query = NoQuery /\ completed = FALSE
    /\ file_path = <<>> /\ parsed = <<>>
    /\ walk = <<>> /\ found_programs = <<>> /\ discovery = <<>>
    /\ m_doc = <<>> /\ m_result = <<>>
    /\ ref_of = <<>> /\ ref_names = <<>>

\* What a method of Program leaves alone whatever it does.
NotOfProgram == UNCHANGED <<force, slogan_vars, clean_vars, path_vars, discovery_vars, metric_vars, reference_vars>>

\* retrieve_text_from_pdf, `if self.text is not None: return` (lines 175-176).
RetrieveTextInMemoryOn(i) ==
    /\ programs[i].text # None
    /\ Called("retrieve_text_from_pdf", i, "returned", <<>>)
    /\ UNCHANGED <<programs, text_file, doc_file, extractions>>
    /\ NotOfProgram

\* retrieve_text_from_pdf, the text is read from its cache file (lines 179-183).
RetrieveTextFromCacheOn(i) ==
    LET ref == reference(programs[i], txt) IN
    /\ programs[i].text = None
    /\ UseCache(text_file, ref)
    /\ programs' = [programs EXCEPT ![i].text = text_file[ref]]
    /\ Called("retrieve_text_from_pdf", i, "returned", <<"exists", "read">>)
    /\ UNCHANGED <<text_file, doc_file, extractions>>
    /\ NotOfProgram

\* retrieve_text_from_pdf, the text is made from the PDF and written to the
\* cache (lines 186-194).
RetrieveTextFromPdfOn(i) ==
    LET ref == reference(programs[i], txt)
        raw == extract_text_pdf(programs[i].path)
        without == remove_repeating_slogans(raw, None)
        cleaned == clean_pdf_text(without.text)
    IN
    /\ programs[i].text = None
    /\ ~UseCache(text_file, ref)
    /\ extractions[i] < MaxExtractions
    /\ ~without.raised
    /\ extractions' = [extractions EXCEPT ![i] = @ + 1]
    /\ programs' = [programs EXCEPT ![i].text = <<cleaned>>]
    /\ text_file' = [text_file EXCEPT ![ref] = <<cleaned>>]
    /\ Called("retrieve_text_from_pdf", i, "returned",
              <<"exists", "extract_text_pdf", "_remove_repeating_slogans",
                "clean_pdf_text", "write">>)
    /\ UNCHANGED doc_file
    /\ NotOfProgram

\* retrieve_text_from_pdf, _remove_repeating_slogans raises at line 187: the
\* exception leaves the method before self.text is assigned.
RetrieveTextRaisesOn(i) ==
    LET ref == reference(programs[i], txt)
        raw == extract_text_pdf(programs[i].path)
    IN
    /\ programs[i].text = None
    /\ ~UseCache(text_file, ref)
    /\ extractions[i] < MaxExtractions
    /\ remove_repeating_slogans(raw, None).raised
    /\ extractions' = [extractions EXCEPT ![i] = @ + 1]
    /\ Called("retrieve_text_from_pdf", i, "IndexError",
              <<"exists", "extract_text_pdf", "_remove_repeating_slogans">>)
    /\ UNCHANGED <<programs, text_file, doc_file>>
    /\ NotOfProgram

\* create_doc_from_text, `if self.doc is not None: return` (lines 205-206).
CreateDocInMemoryOn(i) ==
    /\ programs[i].doc # None
    /\ Called("create_doc_from_text", i, "returned", <<>>)
    /\ UNCHANGED <<programs, text_file, doc_file, extractions>>
    /\ NotOfProgram

\* The mistake of making a doc of the empty text when there is no text.
CreateEmptyDocOn(i) ==
    /\ programs[i].doc = None
    /\ programs[i].text = None
    /\ programs' = [programs EXCEPT ![i].doc = <<nlp(<<>>)>>]
    /\ Called("create_doc_from_text", i, "returned", <<"exists", "nlp">>)
    /\ UNCHANGED <<text_file, doc_file, extractions>>
    /\ NotOfProgram

\* create_doc_from_text, `raise ValueError` (lines 209-210).
CreateDocWithoutTextOn(i) ==
    /\ programs[i].doc = None
    /\ programs[i].text = None
    /\ Called("create_doc_from_text", i, "ValueError", <<>>)
    /\ UNCHANGED <<programs, text_file, doc_file, extractions>>
    /\ NotOfProgram

\* The mistake of looking at the cache file before looking at the text.
CreateDocFromCacheFirstOn(i) ==
    LET ref == reference(programs[i], spacy) IN
    /\ programs[i].doc = None
    /\ UseCache(doc_file, ref)
    /\ programs' = [programs EXCEPT ![i].doc = doc_file[ref]]
    /\ Called("create_doc_from_text", i, "returned", <<"exists", "from_disk">>)
    /\ UNCHANGED <<text_file, doc_file, extractions>>
    /\ NotOfProgram

\* create_doc_from_text, the doc is read from its cache file (lines 213-218).
CreateDocFromCacheOn(i) ==
    LET ref == reference(programs[i], spacy) IN
    /\ programs[i].doc = None
    /\ programs[i].text # None
    /\ UseCache(doc_file, ref)
    /\ programs' = [programs EXCEPT ![i].doc = doc_file[ref]]
    /\ Called("create_doc_from_text", i, "returned", <<"exists", "from_disk">>)
    /\ UNCHANGED <<text_file, doc_file, extractions>>
    /\ NotOfProgram

\* create_doc_from_text, the doc is made by nlp and written to the cache
\* (lines 221-224).
CreateDocFromTextOn(i) ==
    LET ref == reference(programs[i], spacy)
        made == nlp(programs[i].text[1])
    IN
    /\ programs[i].doc = None
    /\ programs[i].text # None
    /\ ~UseCache(doc_file, ref)
    /\ programs' = [programs EXCEPT ![i].doc = <<made>>]
    /\ doc_file' = [doc_file EXCEPT ![ref] = <<made>>]
    /\ Called("create_doc_from_text", i, "returned", <<"exists", "nlp", "to_disk">>)
    /\ UNCHANGED <<text_file, extractions>>
    /\ NotOfProgram

\* The methods called on any program of the list, outside the batch.
RetrieveTextInMemory ==
    \E i \in DOMAIN programs : RetrieveTextInMemoryOn(i) /\ UNCHANGED batch_vars

RetrieveTextFromCache ==
    \E i \in DOMAIN programs : RetrieveTextFromCacheOn(i) /\ UNCHANGED batch_vars

RetrieveTextFromPdf ==
    \E i \in DOMAIN programs : RetrieveTextFromPdfOn(i) /\ UNCHANGED batch_vars

RetrieveTextRaises ==
    \E i \in DOMAIN programs : RetrieveTextRaisesOn(i) /\ UNCHANGED batch_vars

CreateDocInMemory ==
    \E i \in DOMAIN programs : CreateDocInMemoryOn(i) /\ UNCHANGED batch_vars

CreateDocWithoutText ==
    \E i \in DOMAIN programs : CreateDocWithoutTextOn(i) /\ UNCHANGED batch_vars

CreateDocFromCache ==
    \E i \in DOMAIN programs : CreateDocFromCacheOn(i) /\ UNCHANGED batch_vars

CreateDocFromText ==
    \E i \in DOMAIN programs : CreateDocFromTextOn(i) /\ UNCHANGED batch_vars

NextPipeline ==
    \/ RetrieveTextInMemory
    \/ RetrieveTextFromCache
    \/ RetrieveTextFromPdf
    \/ RetrieveTextRaises
    \/ CreateDocInMemory
    \/ CreateDocWithoutText
    \/ CreateDocFromCache
    \/ CreateDocFromText

SpecPipeline == InitPipeline /\ [][NextPipeline]_vars

(***************************************************************************)
(* process_all_programs and the query API (get_all_programs,               *)
(* get_programs, get_specific_program).                                    *)
(***************************************************************************)

\* Issuer.__post_init__: name.split("+") and "+" in name.
RECURSIVE Split(_, _)
Split(s, sep) ==
    IF \E k \in DOMAIN s : s[k] = sep
    THEN LET k == CHOOSE n \in DOMAIN s : s[n] = sep /\ \A j \in 1..(n - 1) : s[j] # sep
         IN <<SubSeq(s, 1, k - 1)>> \o Split(SubSeq(s, k + 1, Len(s)), sep)
    ELSE <<s>>

members(name) == {Split(name, "+")[k] : k \in DOMAIN Split(name, "+")}

joined(name) == \E k \in DOMAIN name : name[k] = "+"

\* Program.joined_issue
joined_issue(p) == joined(p.party)

\* Issuer.__eq__ with a string: other in self.members.
IssuerEqualsString(name, other) == other \in members(name)

\* The PDF files of the manifest directory the batch is run on.
BatchManifests ==
    <<"manifests/TK/21/VVD.pdf",
      "manifests/TK/21/VVD#concept.pdf",
      "manifests/TK/17/GL+PvdA.pdf">>

\* The arguments the query API is called with.  An argument left out, or
\* passed as None, is None; otherwise it is <<value>>.
TypeArgs == {<<"T", "K">>, <<"E", "P">>}

PartyArgs == {<<"V", "V", "D">>, <<"G", "L">>}

DateArgs == {<<"2", "1">>, <<"1", "7">>}

TagsArgs == {<< <<"c", "o", "n", "c", "e", "p", "t">> >>}

\* process_all_programs is in its loop at position pos of _programs;
\* raised and called are history: whether the processing of a program has
\* raised in this call, and the programs processed in it.
Running(pos, raised, called) == [pc |-> "retrieve", pos |-> pos, raised |-> raised, called |-> called]

\* process_all_programs has ended.
Stopped(pos, raised, called) == [pc |-> "idle", pos |-> pos, raised |-> raised, called |-> called]

\* The module is imported: identify_programs has filled _programs,
\* _programs_processed is False.
InitBatch ==
    /\ \E found \in [1..NumPrograms -> DOMAIN BatchManifests] :
          /\ \A i, j \in 1..NumPrograms : i < j => found[i] < found[j]
          /\ programs = [i \in 1..NumPrograms |->
                            Program(PathInfo(BatchManifests[found[i]]), BatchManifests[found[i]])]
    /\ \E earlier \in BOOLEAN :
          /\ text_file = [r \in {reference(programs[i], txt) : i \in 1..NumPrograms} |->
                            IF earlier THEN <<StaleText>> ELSE None]
          /\ doc_file = [r \in {reference(programs[i], spacy) : i \in 1..NumPrograms} |->
                            IF earlier THEN <<nlp(StaleText)>> ELSE None]
    /\ force \in BOOLEAN
    /\ calls = <<>>
    /\ extractions = [i \in 1..NumPrograms |-> 0]
    /\ pl_last = NoCall
    /\ processed = FALSE
    /\ completed = FALSE
    /\ order = [i \in 1..NumPrograms |-> i]
    /\ batch = NotRunning
    /\ query = NoQuery
    /\ pc = "idle" /\ text = <<>> /\ start_size = None /\ stack = <<>>
    /\ sl_input = <<>> /\ sl_start = None /\ scanned = {} /\ last_step = NoStep
    /\ cl_input = <<>> /\ cl_text = <<>> /\ cl_rule = 0 /\ cl_gone = {} /\ cl_again = <<>>
    /\ file_path = <<>> /\ parsed = <<>>
    /\ walk = <<>> /\ found_programs = <<>> /\ discovery = <<>>
    /\ m_doc = <<>> /\ m_result = <<>>
    /\ ref_of = <<>> /\ ref_names = <<>>

\* random.sample(_programs, len(_programs)): the same programs in any order.
Shuffles(list) ==
    {s \in [DOMAIN list -> {list[k] : k \in DOMAIN list}] :
        \A i, j \in DOMAIN list : i # j => s[i] # s[j]}

\* The mistake of setting _programs_processed before the loop.
ProcessAllStartFlagFirst ==
    /\ batch.pc = "idle"
    /\ order' \in Shuffles(order)
    /\ batch' = Running(1, FALSE, {})
    /\ processed' = TRUE
    /\ UNCHANGED <<completed, query, pipeline_vars, slogan_vars, clean_vars,
                   path_vars, discovery_vars, metric_vars, reference_vars>>

\* process_all_programs up to its loop (lines 501-506).
ProcessAllStart ==
    /\ batch.pc = "idle"
    /\ order' \in Shuffles(order)
    /\ batch' = Running(1, FALSE, {})
    /\ UNCHANGED <<processed, completed, query, pipeline_vars, slogan_vars, clean_vars,
                   path_vars, discovery_vars, metric_vars, reference_vars>>

\* The program of the running iteration.
Current == order[batch.pos]

InLoop(at) == batch.pc = at /\ batch.pos \in DOMAIN order

\* The mistake of going on to the next program without making its doc.
RetrievedThenNext ==
    /\ batch' = [batch EXCEPT !.pc = "retrieve", !.pos = @ + 1, !.called = @ \cup {Current}]
    /\ UNCHANGED <<processed, completed, order, query>>

\* p.retrieve_text_from_pdf() returned (line 511): on to line 512.
Retrieved ==
    /\ batch' = [batch EXCEPT !.pc = "create_doc", !.called = @ \cup {Current}]
    /\ UNCHANGED <<processed, completed, order, query>>

\* p.create_doc_from_text() returned (line 512): the rest of the iteration
\* prints, then the loop goes on.
DocCreated ==
    /\ batch' = [batch EXCEPT !.pc = "retrieve", !.pos = @ + 1]
    /\ UNCHANGED <<processed, completed, order, query>>

BatchRetrieveInMemory == InLoop("retrieve") /\ RetrieveTextInMemoryOn(Current) /\ Retrieved

BatchRetrieveFromCache == InLoop("retrieve") /\ RetrieveTextFromCacheOn(Current) /\ Retrieved

BatchRetrieveFromPdf == InLoop("retrieve") /\ RetrieveTextFromPdfOn(Current) /\ Retrieved

\* The mistake of catching the exception of a document and going on with
\* the next one.
BatchRetrieveSkips ==
    /\ InLoop("retrieve")
    /\ RetrieveTextRaisesOn(Current)
    /\ batch' = Running(batch.pos + 1, TRUE, batch.called \cup {Current})
    /\ UNCHANGED <<processed, completed, order, query>>

\* p.retrieve_text_from_pdf() raises: nothing in process_all_programs
\* catches it, the call ends there.
BatchRetrieveRaises ==
    /\ InLoop("retrieve")
    /\ RetrieveTextRaisesOn(Current)
    /\ batch' = Stopped(batch.pos, TRUE, batch.called \cup {Current})
    /\ UNCHANGED <<processed, completed, order, query>>

BatchCreateDocInMemory == InLoop("create_doc") /\ CreateDocInMemoryOn(Current) /\ DocCreated

BatchCreateDocFromCache == InLoop("create_doc") /\ CreateDocFromCacheOn(Current) /\ DocCreated

BatchCreateDocFromText == InLoop("create_doc") /\ CreateDocFromTextOn(Current) /\ DocCreated

\* The loop is over: _programs_processed = True (line 525).
ProcessAllFinish ==
    /\ batch.pc = "retrieve"
    /\ batch.pos = Len(order) + 1
    /\ processed' = TRUE
    /\ completed' = TRUE
    /\ batch' = [batch EXCEPT !.pc = "idle"]
    /\ UNCHANGED <<order, query, pipeline_vars, slogan_vars, clean_vars,
                   path_vars, discovery_vars, metric_vars, reference_vars>>

\* What a function of the query API leaves alone.  No call changes the
\* state of the module, so a behaviour has one call of the query API, made
\* at any moment.
QueryOnly ==
    /\ query = NoQuery
    /\ UNCHANGED <<processed, completed, order, batch, pipeline_vars, slogan_vars, clean_vars,
                path_vars, discovery_vars, metric_vars, reference_vars>>

Answer(fn, args, outcome, result) ==
    [fn |-> fn, args |-> args, outcome |-> outcome, result |-> result,
     completed |-> completed]

\* get_all_programs (lines 529-542).
GetAllPrograms ==
    /\ QueryOnly
    /\ query' = IF ~processed
                THEN Answer("get_all_programs", <<>>, "RuntimeError", <<>>)
                ELSE Answer("get_all_programs", <<>>, "returned", order)

\* The mistake of leaving the joined_issue filter out.
JoinedIgnored(p, joined_arg) == TRUE

\* p.joined_issue == joined_issue
JoinedMatches(p, joined_arg) == joined_issue(p) = joined_arg

\* tags is None or all(tag in p.tags for tag in tags)
HasTags(p, tags) ==
    tags = None \/ \A k \in DOMAIN tags[1] : \E n \in DOMAIN p.tags : p.tags[n] = tags[1][k]

\* The condition of the list comprehension of get_programs (lines 581-585).
Selected(p, a) ==
    /\ (a.election_type = None \/ p.election_type = a.election_type[1])
    /\ (a.party = None \/ IssuerEqualsString(p.party, a.party[1]))
    /\ (a.election_date = None \/ p.election_date = a.election_date[1])
    /\ JoinedMatches(p, a.joined_issue)
    /\ HasTags(p, a.tags)

\* get_programs (lines 545-594).
GetPrograms ==
    /\ QueryOnly
    /\ \E a \in [election_type : Optional(TypeArgs), party : Optional(PartyArgs),
                 election_date : Optional(DateArgs), joined_issue : BOOLEAN,
                 tags : Optional(TagsArgs)] :
          LET found == SelectSeq(order, LAMBDA i : Selected(programs[i], a)) IN
          query' = IF ~processed THEN Answer("get_programs", a, "RuntimeError", <<>>)
                   ELSE IF found # <<>> THEN Answer("get_programs", a, "returned", found)
                   ELSE Answer("get_programs", a, "ValueError", <<>>)

\* (p.election_type, p.party, p.election_date, p.joined_issue) != properties
\* is false, and the program has the tags (lines 634-644).
IsTheOne(p, a) ==
    /\ p.election_type = a.election_type[1]
    /\ IssuerEqualsString(p.party, a.party[1])
    /\ p.election_date = a.election_date[1]
    /\ joined_issue(p) = a.joined_issue
    /\ HasTags(p, a.tags)

\* get_specific_program (lines 597-647), called with strings.
GetSpecificProgram ==
    /\ QueryOnly
    /\ \E a \in [election_type : {<<v>> : v \in TypeArgs}, party : {<<v>> : v \in PartyArgs},
                 election_date : {<<v>> : v \in DateArgs}, joined_issue : BOOLEAN,
                 tags : Optional(TagsArgs)] :
          LET found == SelectSeq(order, LAMBDA i : IsTheOne(programs[i], a)) IN
          query' = IF ~processed THEN Answer("get_specific_program", a, "RuntimeError", <<>>)
                   ELSE IF found # <<>> THEN Answer("get_specific_program", a, "returned", <<found[1]>>)
                   ELSE Answer("get_specific_program", a, "ValueError", <<>>)

NextBatch ==
    \/ ProcessAllStart
    \/ BatchRetrieveInMemory
    \/ BatchRetrieveFromCache
    \/ BatchRetrieveFromPdf
    \/ BatchRetrieveRaises
    \/ BatchCreateDocInMemory
    \/ BatchCreateDocFromCache
    \/ BatchCreateDocFromText
    \/ ProcessAllFinish
    \/ GetAllPrograms
    \/ GetPrograms
    \/ GetSpecificProgram

SpecBatch == InitBatch /\ [][NextBatch]_vars

(***************************************************************************)
(* PathInfoExtractor: the parsing of a manifest path.  A path is a         *)
(* sequence of characters, os.sep is "/".                                  *)
(***************************************************************************)

\* The longest enumerated file name (without ".pdf").
MaxNameLen == 5

sep == "/"

\* \w and \s of Python's re on the characters of the enumerated paths.
NameWord == {"V", "D", "T", "K", "E", "P", "2", "1", "d", "p", "f", "t", "x", "n",
             "m", "a", "i", "e", "s"}

NameSpace == {" "}

\* The characters of the enumerated file names: a letter, the tag sign, a
\* space and a character that is neither of a word nor white.
NameCharacters == {"V", "#", " ", "-"}

dot_pdf == <<".", "p", "d", "f">>

manifests == <<"m", "a", "n", "i", "f", "e", "s", "t", "s">>

\* The directory of the manifests, with its separator.
ManifestDir == <<"d", sep>> \o manifests \o <<sep>>

FileNames == UNION {[1..n -> NameCharacters] : n \in 0..MaxNameLen}

ParserPaths ==
    {ManifestDir \o type \o <<sep, "2", "1", sep>> \o name \o dot_pdf :
        type \in {<<"T", "K">>, <<"E", "P">>}, name \in FileNames}

\* str.removesuffix
removesuffix(s, suffix) ==
    IF Len(s) >= Len(suffix) /\ SubSeq(s, Len(s) - Len(suffix) + 1, Len(s)) = suffix
    THEN SubSeq(s, 1, Len(s) - Len(suffix))
    ELSE s

\* str.endswith
endswith(s, suffix) ==
    Len(s) >= Len(suffix) /\ SubSeq(s, Len(s) - Len(suffix) + 1, Len(s)) = suffix

\* PathInfoExtractor.get_election_type (lines 260-281): the segment after the
\* first "manifests"; list.index raises ValueError, the subscript IndexError.
get_election_type(p) ==
    LET split_path == Split(p, sep)
        at == {k \in DOMAIN split_path : split_path[k] = manifests}
    IN  IF at = {}
        THEN [raised |-> "ValueError", value |-> <<>>]
        ELSE LET election_type_index == (CHOOSE k \in at : \A j \in at : k <= j) + 1
             IN  IF election_type_index > Len(split_path)
                 THEN [raised |-> "IndexError", value |-> <<>>]
                 ELSE [raised |-> "no", value |-> split_path[election_type_index]]

\* Where a match of #\w+ that starts at i ends, 0 if there is none.
TagEnd(s, i) ==
    IF s[i] = "#" /\ At(s, i + 1, NameWord) THEN RunEnd(s, i + 1, NameWord) ELSE 0

\* re.findall(r"#\w+", filename), each with its "#" taken off.
RECURSIVE FindTags(_, _)
FindTags(s, i) ==
    IF i > Len(s) THEN <<>>
    ELSE IF TagEnd(s, i) = 0 THEN FindTags(s, i + 1)
    ELSE <<SubSeq(s, i + 1, TagEnd(s, i))>> \o FindTags(s, TagEnd(s, i) + 1)

\* Where a match of \s*#\w+\s* that starts at i ends, 0 if there is none.
SpacedTagEnd(s, i) ==
    LET hash == RunEnd(s, i, NameSpace) + 1 IN
    IF hash <= Len(s) /\ TagEnd(s, hash) # 0
    THEN RunEnd(s, TagEnd(s, hash) + 1, NameSpace)
    ELSE 0

\* re.sub(r"\s*#\w+\s*", "", filename)
RECURSIVE RemoveTags(_, _)
RemoveTags(s, i) ==
    IF i > Len(s) THEN <<>>
    ELSE IF SpacedTagEnd(s, i) = 0 THEN <<s[i]>> \o RemoveTags(s, i + 1)
    ELSE RemoveTags(s, SpacedTagEnd(s, i) + 1)

\* The mistake of taking the first tag only.
first_tag_only(filename) ==
    IF ~Holds(filename, 1, Len(filename), "#")
    THEN [name |-> filename, tags |-> <<>>]
    ELSE [name |-> RemoveTags(filename, 1),
          tags |-> IF FindTags(filename, 1) = <<>> THEN <<>>
                   ELSE <<Head(FindTags(filename, 1))>>]

\* PathInfoExtractor.extract_tags_and_remove_tags_from_filename (lines
\* 284-309).
extract_tags_and_remove_tags_from_filename(filename) ==
    IF ~Holds(filename, 1, Len(filename), "#")
    THEN [name |-> filename, tags |-> <<>>]
    ELSE [name |-> RemoveTags(filename, 1), tags |-> FindTags(filename, 1)]

\* PathInfoExtractor.extractor_type_date_party_tags (lines 311-336).
extractor_type_date_party_tags(p) ==
    LET split_path == Split(removesuffix(p, dot_pdf), sep)
        n == Len(split_path)
        found == extract_tags_and_remove_tags_from_filename(split_path[n])
    IN  [election_type |-> split_path[n - 2],
         election_date |-> split_path[n - 1],
         party |-> found.name,
         tags |-> found.tags]

NotParsed == [fn |-> "none"]

InitPath ==
    /\ file_path \in ParserPaths
    /\ parsed = NotParsed
    /\ pc = "idle" /\ text = <<>> /\ start_size = None /\ stack = <<>>
    /\ sl_input = <<>> /\ sl_start = None /\ scanned = {} /\ last_step = NoStep
    /\ cl_input = <<>> /\ cl_text = <<>> /\ cl_rule = 0 /\ cl_gone = {} /\ cl_again = <<>>
    /\ programs = <<>> /\ text_file = <<>> /\ doc_file = <<>> /\ force = FALSE
    /\ calls = <<>> /\ extractions = <<>> /\ pl_last = <<>>
    /\ processed = FALSE /\ order = <<>> /\ batch = <<>> /\ query = <<>> /\ completed = FALSE
    /\ walk = <<>> /\ found_programs = <<>> /\ discovery = <<>>
    /\ m_doc = <<>> /\ m_result = <<>>
    /\ ref_of = <<>> /\ ref_names = <<>>

\* PathInfoExtractor.get_election_type(file_path)
GetElectionType ==
    /\ parsed.fn # "get_election_type"
    /\ parsed' = [fn |-> "get_election_type", result |-> get_election_type(file_path)]
    /\ UNCHANGED <<file_path, slogan_vars, clean_vars, pipeline_vars, batch_vars,
                   discovery_vars, metric_vars, reference_vars>>

\* PathInfoExtractor.extractor_type_date_party_tags(file_path)
ExtractorTypeDatePartyTags ==
    /\ parsed.fn # "extractor_type_date_party_tags"
    /\ parsed' = [fn |-> "extractor_type_date_party_tags",
                  result |-> extractor_type_date_party_tags(file_path)]
    /\ UNCHANGED <<file_path, slogan_vars, clean_vars, pipeline_vars, batch_vars,
                   discovery_vars, metric_vars, reference_vars>>

NextPath ==
    \/ GetElectionType
    \/ ExtractorTypeDatePartyTags

SpecPath == InitPath /\ [][NextPath]_vars

(***************************************************************************)
(* identify_programs: the walk over the files of the manifest directory,   *)
(* one file per step.                                                      *)
(***************************************************************************)

\* The most files os.walk yields.
MaxFiles == 3

\* PathInfoExtractor.EXTRACTOR_REFERENCE = {"TK": extractor_type_date_party_tags}
EXTRACTOR_REFERENCE == {<<"T", "K">>}

\* Files under the manifest directory: two manifests of a registered
\* election type, one of an unregistered type, a pdf directly in the
\* manifest directory, and a file that is not a pdf under each type.
WalkFiles ==
    {ManifestDir \o <<"T", "K", sep, "2", "1", sep, "V">> \o dot_pdf,
     ManifestDir \o <<"T", "K", sep, "2", "1", sep, "V", "#", "V">> \o dot_pdf,
     ManifestDir \o <<"E", "P", sep, "2", "1", sep, "V">> \o dot_pdf,
     ManifestDir \o <<"x">> \o dot_pdf,
     ManifestDir \o <<"T", "K", sep, "2", "1", sep, "n", ".", "t", "x", "t">>,
     ManifestDir \o <<"E", "P", sep, "2", "1", sep, "n", ".", "t", "x", "t">>}

Walking(pos) == [pc |-> "walking", pos |-> pos, raised |-> "no", result |-> None]

InitDiscovery ==
    /\ walk \in UNION {[1..n -> WalkFiles] : n \in 0..MaxFiles}
    /\ found_programs = <<>>
    /\ discovery = Walking(1)
    /\ pc = "idle" /\ text = <<>> /\ start_size = None /\ stack = <<>>
    /\ sl_input = <<>> /\ sl_start = None /\ scanned = {} /\ last_step = NoStep
    /\ cl_input = <<>> /\ cl_text = <<>> /\ cl_rule = 0 /\ cl_gone = {} /\ cl_again = <<>>
    /\ programs = <<>> /\ text_file = <<>> /\ doc_file = <<>> /\ force = FALSE
    /\ calls = <<>> /\ extractions = <<>> /\ pl_last = <<>>
    /\ processed = FALSE /\ order = <<>> /\ batch = <<>> /\ query = <<>> /\ completed = FALSE
    /\ file_path = <<>> /\ parsed = <<>>
    /\ m_doc = <<>> /\ m_result = <<>>
    /\ ref_of = <<>> /\ ref_names = <<>>

NotOfDiscovery ==
    UNCHANGED <<walk, slogan_vars, clean_vars, pipeline_vars, batch_vars, path_vars, metric_vars, reference_vars>>

\* The file the loop is at.
AtFile == discovery.pc = "walking" /\ discovery.pos <= Len(walk)

\* The file is a pdf whose election type get_election_type finds.  (Every
\* walked file is below the "manifests" directory, so get_election_type
\* does not raise.)
AtManifest ==
    /\ AtFile
    /\ endswith(walk[discovery.pos], dot_pdf)
    /\ get_election_type(walk[discovery.pos]).raised = "no"

election_type_abbrev == get_election_type(walk[discovery.pos]).value

\* if not file.endswith(".pdf"): continue
SkipOtherFile ==
    /\ AtFile
    /\ ~endswith(walk[discovery.pos], dot_pdf)
    /\ discovery' = Walking(discovery.pos + 1)
    /\ UNCHANGED found_programs
    /\ NotOfDiscovery

\* The mistake of passing over a manifest of an unregistered election type.
SkipUnknownType ==
    /\ AtManifest
    /\ election_type_abbrev \notin EXTRACTOR_REFERENCE
    /\ discovery' = Walking(discovery.pos + 1)
    /\ UNCHANGED found_programs
    /\ NotOfDiscovery

\* raise NotImplementedError(f"Unknown election type: ...")
RaiseUnknownType ==
    /\ AtManifest
    /\ election_type_abbrev \notin EXTRACTOR_REFERENCE
    /\ discovery' = [pc |-> "raised", pos |-> discovery.pos,
                     raised |-> "NotImplementedError", result |-> None]
    /\ UNCHANGED found_programs
    /\ NotOfDiscovery

\* found_programs.append(Program(**info, path=file_path))
AppendProgram ==
    /\ AtManifest
    /\ election_type_abbrev \in EXTRACTOR_REFERENCE
    /\ found_programs' = Append(found_programs,
            Program(extractor_type_date_party_tags(walk[discovery.pos]), walk[discovery.pos]))
    /\ discovery' = Walking(discovery.pos + 1)
    /\ NotOfDiscovery

\* return found_programs
ReturnPrograms ==
    /\ discovery.pc = "walking"
    /\ discovery.pos > Len(walk)
    /\ discovery' = [pc |-> "returned", pos |-> discovery.pos,
                     raised |-> "no", result |-> <<found_programs>>]
    /\ UNCHANGED found_programs
    /\ NotOfDiscovery

NextDiscovery ==
    \/ SkipOtherFile
    \/ RaiseUnknownType
    \/ AppendProgram
    \/ ReturnPrograms

SpecDiscovery == InitDiscovery /\ [][NextDiscovery]_vars

(***************************************************************************)
(* metrics.py: the absolute and the relative metrics of an annotated       *)
(* document.  A Doc is the sequence of its sentences; a sentence has its   *)
(* tokens and, for each token, the position of its head in the dependency  *)
(* tree (0 for the root).  A token has its text, its part of speech and    *)
(* its syllable count.  A Doc without tokens has no sentences.             *)
(***************************************************************************)

\* The most sentences of a document.
MaxSentences == 3

\* str.isalpha on the characters of the tokens.
AlphaCharacters == {"a", "b", "A"}

Token(t, pos, syllables) == [text |-> t, pos_ |-> pos, syllables_count |-> syllables]

\* Sentences the documents are made of: one noun; a noun, a verb and a
\* full stop below the verb; a chain of a three-syllable verb, a pronoun
\* and a preposition; a noun and a number that are not alphabetic; a
\* capitalised noun with a full stop; a full stop alone.
Sentences ==
    {[tokens |-> <<Token(<<"a">>, "NOUN", 1)>>, heads |-> <<0>>],
     [tokens |-> <<Token(<<"a", "b">>, "NOUN", 1), Token(<<"b">>, "VERB", 1),
                   Token(<<".">>, "PUNCT", 0)>>,
      heads |-> <<2, 0, 2>>],
     [tokens |-> <<Token(<<"a", "b", "a">>, "VERB", 3), Token(<<"a">>, "PRON", 1),
                   Token(<<"b">>, "ADP", 1)>>,
      heads |-> <<0, 1, 2>>],
     [tokens |-> <<Token(<<"a", "1">>, "NOUN", 1), Token(<<"1">>, "NUM", 0)>>,
      heads |-> <<0, 1>>],
     [tokens |-> <<Token(<<"A">>, "NOUN", 1), Token(<<".">>, "PUNCT", 0)>>,
      heads |-> <<0, 1>>],
     [tokens |-> <<Token(<<".">>, "PUNCT", 0)>>, heads |-> <<0>>]}

Docs == UNION {[1..n -> Sentences] : n \in 0..MaxSentences}

\* for token in doc
RECURSIVE TokensOf(_)
TokensOf(doc) == IF doc = <<>> THEN <<>> ELSE Head(doc).tokens \o TokensOf(Tail(doc))

\* token.is_alpha
is_alpha(token) ==
    token.text # <<>> /\ \A k \in DOMAIN token.text : token.text[k] \in AlphaCharacters

\* len([x for x in s if P(x)])
CountIf(s, P(_)) == Cardinality({k \in DOMAIN s : P(s[k])})

RECURSIVE Sum(_)
Sum(s) == IF s = <<>> THEN 0 ELSE Head(s) + Sum(Tail(s))

\* Absolute.number_of_sentences
number_of_sentences(doc) == Len(doc)

\* Absolute.number_of_words
number_of_words(doc) == CountIf(TokensOf(doc), is_alpha)

\* Absolute.number_of_characters: the alphabetic characters of doc.text,
\* that is of the texts of all tokens (the white space between them is not
\* alphabetic).
number_of_characters(doc) ==
    LET tokens == TokensOf(doc)
        IsAlphaChar(c) == c \in AlphaCharacters
    IN  Sum([k \in DOMAIN tokens |-> CountIf(tokens[k].text, IsAlphaChar)])

\* The mistake of adding a page after every full one.
always_add_page(doc) == number_of_characters(doc) \div characters_per_page + 1

\* Absolute.number_of_pages
number_of_pages(doc) ==
    LET add_page == IF number_of_characters(doc) % characters_per_page # 0 THEN 1 ELSE 0
    IN  number_of_characters(doc) \div characters_per_page + add_page

\* Absolute.number_of_syllables
number_of_syllables(doc) ==
    LET tokens == TokensOf(doc)
    IN  Sum([k \in DOMAIN tokens |->
                IF is_alpha(tokens[k]) THEN tokens[k].syllables_count ELSE 0])

\* Absolute.number_of_nouns
number_of_nouns(doc) ==
    LET IsNoun(token) == token.pos_ = "NOUN" IN CountIf(TokensOf(doc), IsNoun)

\* Absolute.number_of_verbs
number_of_verbs(doc) ==
    LET IsVerb(token) == token.pos_ = "VERB" IN CountIf(TokensOf(doc), IsVerb)

\* The mistake of counting the texts of all tokens, alphabetic or not.
unique_texts_of_all_tokens(doc) ==
    Cardinality({TokensOf(doc)[k].text : k \in DOMAIN TokensOf(doc)})

\* Absolute.number_of_unique_words
number_of_unique_words(doc) ==
    LET tokens == TokensOf(doc)
    IN  Cardinality({tokens[k].text : k \in {j \in DOMAIN tokens : is_alpha(tokens[j])}})

\* Absolute.number_of_complex_words
number_of_complex_words(doc) ==
    LET IsComplex(token) == is_alpha(token) /\ token.syllables_count > 2
    IN  CountIf(TokensOf(doc), IsComplex)

\* max of a non-empty set of numbers
Max(S) == CHOOSE x \in S : \A y \in S : y <= x

\* walk_tree(node, depth) in the sentence with these heads
RECURSIVE walk_tree(_, _, _)
walk_tree(heads, node, depth) ==
    LET children == {k \in DOMAIN heads : heads[k] = node} IN
    IF children # {}
    THEN Max({walk_tree(heads, child, depth + 1) : child \in children})
    ELSE depth

\* sent.root
root(sent) == CHOOSE k \in DOMAIN sent.heads : sent.heads[k] = 0

\* Absolute.tree_depth
tree_depth(doc) ==
    Sum([k \in DOMAIN doc |-> walk_tree(doc[k].heads, root(doc[k]), 0)])

\* The mistake of giving 0 for a division by zero.
ZeroWhenUndefined(a, b) ==
    IF b = 0 THEN [raised |-> "no", value |-> <<0, 1>>]
    ELSE [raised |-> "no", value |-> <<a, b>>]

\* a / b of two ints: ZeroDivisionError when b is 0, else the quotient, kept
\* as the pair of a and b.
Divide(a, b) ==
    IF b = 0 THEN [raised |-> "ZeroDivisionError", value |-> None]
    ELSE [raised |-> "no", value |-> <<a, b>>]

NoResult == [fn |-> "none", raised |-> "no", value |-> None]

\* What a call of a relative metric leaves.
Result(fn, outcome) == [fn |-> fn, raised |-> outcome.raised, value |-> outcome.value]

InitMetrics ==
    /\ m_doc \in Docs
    /\ m_result = NoResult
    /\ pc = "idle" /\ text = <<>> /\ start_size = None /\ stack = <<>>
    /\ sl_input = <<>> /\ sl_start = None /\ scanned = {} /\ last_step = NoStep
    /\ cl_input = <<>> /\ cl_text = <<>> /\ cl_rule = 0 /\ cl_gone = {} /\ cl_again = <<>>
    /\ programs = <<>> /\ text_file = <<>> /\ doc_file = <<>> /\ force = FALSE
    /\ calls = <<>> /\ extractions = <<>> /\ pl_last = <<>>
    /\ processed = FALSE /\ order = <<>> /\ batch = <<>> /\ query = <<>> /\ completed = FALSE
    /\ file_path = <<>> /\ parsed = <<>>
    /\ walk = <<>> /\ found_programs = <<>> /\ discovery = <<>>
    /\ ref_of = <<>> /\ ref_names = <<>>

\* The metrics are pure: a call leaves only its result.
NotOfMetrics ==
    UNCHANGED <<m_doc, slogan_vars, clean_vars, pipeline_vars, batch_vars, path_vars,
                discovery_vars, reference_vars>>

\* Relative.number_of_sentences_per_page
NumberOfSentencesPerPage ==
    /\ m_result' = Result("number_of_sentences_per_page",
                          Divide(number_of_sentences(m_doc), number_of_pages(m_doc)))
    /\ NotOfMetrics

\* Relative.average_words_per_sentence
AverageWordsPerSentence ==
    /\ m_result' = Result("average_words_per_sentence",
                          Divide(number_of_words(m_doc), number_of_sentences(m_doc)))
    /\ NotOfMetrics

\* Relative.average_characters_per_sentence
AverageCharactersPerSentence ==
    /\ m_result' = Result("average_characters_per_sentence",
                          Divide(number_of_characters(m_doc), number_of_sentences(m_doc)))
    /\ NotOfMetrics

\* Relative.average_syllables_per_sentence
AverageSyllablesPerSentence ==
    /\ m_result' = Result("average_syllables_per_sentence",
                          Divide(number_of_syllables(m_doc), number_of_sentences(m_doc)))
    /\ NotOfMetrics

\* Relative.average_syllables_per_word
AverageSyllablesPerWord ==
    /\ m_result' = Result("average_syllables_per_word",
                          Divide(number_of_syllables(m_doc), number_of_words(m_doc)))
    /\ NotOfMetrics

\* Relative.average_of_nouns_per_sentence
AverageOfNounsPerSentence ==
    /\ m_result' = Result("average_of_nouns_per_sentence",
                          Divide(number_of_nouns(m_doc), number_of_sentences(m_doc)))
    /\ NotOfMetrics

\* Relative.average_of_verbs_per_sentence
AverageOfVerbsPerSentence ==
    /\ m_result' = Result("average_of_verbs_per_sentence",
                          Divide(number_of_verbs(m_doc), number_of_sentences(m_doc)))
    /\ NotOfMetrics

\* Relative.average_tree_depth_per_sentence
AverageTreeDepthPerSentence ==
    /\ m_result' = Result("average_tree_depth_per_sentence",
                          Divide(tree_depth(m_doc), number_of_sentences(m_doc)))
    /\ NotOfMetrics

\* What a call of an absolute metric leaves: the int it returns.
Returned(fn, n) == [fn |-> fn, raised |-> "no", value |-> <<n>>]

\* Absolute.number_of_pages
NumberOfPages ==
    /\ m_result' = Returned("number_of_pages", number_of_pages(m_doc))
    /\ NotOfMetrics

\* Absolute.number_of_words
NumberOfWords ==
    /\ m_result' = Returned("number_of_words", number_of_words(m_doc))
    /\ NotOfMetrics

\* Absolute.number_of_unique_words
NumberOfUniqueWords ==
    /\ m_result' = Returned("number_of_unique_words", number_of_unique_words(m_doc))
    /\ NotOfMetrics

\* Absolute.number_of_complex_words
NumberOfComplexWords ==
    /\ m_result' = Returned("number_of_complex_words", number_of_complex_words(m_doc))
    /\ NotOfMetrics

NextMetrics ==
    \/ NumberOfSentencesPerPage
    \/ AverageWordsPerSentence
    \/ AverageCharactersPerSentence
    \/ AverageSyllablesPerSentence
    \/ AverageSyllablesPerWord
    \/ AverageOfNounsPerSentence
    \/ AverageOfVerbsPerSentence
    \/ AverageTreeDepthPerSentence
    \/ NumberOfPages
    \/ NumberOfWords
    \/ NumberOfUniqueWords
    \/ NumberOfComplexWords

SpecMetrics == InitMetrics /\ [][NextMetrics]_vars

(***************************************************************************)
(* Program.reference on its own: the cache file names of two programs.     *)
(***************************************************************************)

\* The most tags of a program.
MaxTags == 2

\* The tags of the file names.
TagNames ==
    {<<"a">>, <<"c", "o", "n", "c", "e", "p", "t">>, <<"c", "o", "n", "f", "l", "i", "c", "t">>}

\* The programs identify_programs can make of two election types, one
\* party, one date, up to MaxTags tags and two PDF files.
ReferencePrograms ==
    {Program([election_type |-> type, party |-> <<"V">>, election_date |-> <<"2", "1">>,
              tags |-> tags], pdf) :
        type \in {<<"T", "K">>, <<"E", "P">>},
        tags \in UNION {[1..n -> TagNames] : n \in 0..MaxTags},
        pdf \in {<<"p">>, <<"q">>}}

NoNames == [ext |-> None, names |-> <<>>]

InitReference ==
    /\ ref_of \in [1..2 -> ReferencePrograms]
    /\ ref_names = NoNames
    /\ pc = "idle" /\ text = <<>> /\ start_size = None /\ stack = <<>>
    /\ sl_input = <<>> /\ sl_start = None /\ scanned = {} /\ last_step = NoStep
    /\ cl_input = <<>> /\ cl_text = <<>> /\ cl_rule = 0 /\ cl_gone = {} /\ cl_again = <<>>
    /\ programs = <<>> /\ text_file = <<>> /\ doc_file = <<>> /\ force = FALSE
    /\ calls = <<>> /\ extractions = <<>> /\ pl_last = <<>>
    /\ processed = FALSE /\ order = <<>> /\ batch = <<>> /\ query = <<>> /\ completed = FALSE
    /\ file_path = <<>> /\ parsed = <<>>
    /\ walk = <<>> /\ found_programs = <<>> /\ discovery = <<>>
    /\ m_doc = <<>> /\ m_result = <<>>

\* reference(ext) of both programs.
Names(ext) == [ext |-> <<ext>>, names |-> [i \in 1..2 |-> reference(ref_of[i], ext)]]

\* reference only reads the fields of the program.
NotOfReference ==
    UNCHANGED <<ref_of, slogan_vars, clean_vars, pipeline_vars, batch_vars, path_vars,
                discovery_vars, metric_vars>>

\* self.reference("txt"), as in retrieve_text_from_pdf
ReferenceTxt ==
    /\ ref_names' = Names(txt)
    /\ NotOfReference

\* self.reference("spacy"), as in create_doc_from_text
ReferenceSpacy ==
    /\ ref_names' = Names(spacy)
    /\ NotOfReference

NextReference ==
    \/ ReferenceTxt
    \/ ReferenceSpacy

SpecReference == InitReference /\ [][NextReference]_vars






(***************************************************************************)
(* Properties of _remove_repeating_slogans.                                *)
(***************************************************************************)

OccursAt(t, x, i) == i >= 1 /\ i + Len(x) - 1 <= Len(t) /\ SubSeq(t, i, i + Len(x) - 1) = x

Occurs(t, x) == \E i \in 1..Len(t) : OccursAt(t, x, i)

\* The occurrences of x that one pass from the left meets, none overlapping
\* the one before it.
RECURSIVE PassStarts(_, _, _)
PassStarts(t, x, i) ==
    IF i + Len(x) - 1 > Len(t) THEN {}
    ELSE IF OccursAt(t, x, i) THEN {i} \cup PassStarts(t, x, i + Len(x))
    ELSE PassStarts(t, x, i + 1)

\* t without the characters of the occurrences that start at the positions in starts.
Without(t, x, starts) ==
    LET kept == {p \in 1..Len(t) : \A j \in starts : p < j \/ p > j + Len(x) - 1}
        nth(k) == CHOOSE p \in kept : Cardinality({q \in kept : q < p}) = k - 1
    IN  [k \in 1..Cardinality(kept) |-> t[nth(k)]]

\* Two different snippets of length size share the highest frequency.
TwoMostFrequentEqual(t, size) ==
    LET sn == snippets(t, size)
        D == {sn[i] : i \in DOMAIN sn}
    IN  \E x \in D : \E y \in D \ {x} :
            /\ Count(sn, x) = Count(sn, y)
            /\ \A z \in D : Count(sn, z) <= Count(sn, x)

\* The state in which a removal has just handed its text to the recursive call.
JustRemoved == pc = "call" /\ last_step.kind = "remove"

\* C1: a text shorter than one page is returned unchanged, whatever
\* start_size is passed: the call never enters its loop, enumerates no
\* snippet, does not raise, and its result is the input.
C1_ShortTextUnchanged ==
    Len(sl_input) < characters_per_page =>
        /\ text = sl_input
        /\ pc \in {"call", "done"}
        /\ stack = <<>>
        /\ scanned = {}

C1_Witness ==
    /\ pc = "done"
    /\ Len(sl_input) = characters_per_page - 1
    /\ sl_start = <<max_snippet_size>>
    /\ text = sl_input

\* C2: on the scenario text (repetitions of one slogan phrase, then one
\* unique sentence, at least a page in all) the call completes and returns
\* only the unique sentence.
C2_ScenarioLeavesUniqueSentence ==
    (sl_input = ScenarioText /\ sl_start = None) =>
        /\ pc # "raised"
        /\ pc = "done" => text = UniqueSentence

\* C3: every call ends normally: a removal makes the text strictly shorter,
\* a step without removal makes the snippet length strictly smaller, and no
\* call raises.
C3_EndsNormally ==
    /\ pc # "raised"
    /\ last_step.kind = "remove" => Len(text) < Len(last_step.before)
    /\ (last_step.kind \in {"tie", "below"}) => Top.snippet_size < last_step.size

\* C4 as claimed: the text handed to the recursive call contains no
\* occurrence of the removed snippet.
C4_NoOccurrenceLeft ==
    JustRemoved => ~Occurs(text, last_step.snippet)

\* C4 as amended: the removal deletes every occurrence of the snippet that
\* one pass from the left over the text finds (no occurrence of the text
\* before the removal survives whole, and at least one is deleted); the text
\* handed to the recursive call is the text before with exactly those
\* occurrences cut out, and may hold occurrences formed where the pieces join.
C4_PassDeletesEveryOccurrence ==
    JustRemoved =>
        LET before == last_step.before
            x == last_step.snippet
            starts == PassStarts(before, x, 1)
        IN  /\ starts # {}
            /\ text = Without(before, x, starts)
            /\ \A i \in 1..Len(before) : OccursAt(before, x, i) =>
                   \E j \in starts : i > j - Len(x) /\ i < j + Len(x)

C4_Witness ==
    /\ JustRemoved
    /\ Occurs(text, last_step.snippet)
    /\ Cardinality(PassStarts(last_step.before, last_step.snippet, 1)) >= 2

\* C5: a scan at a length where two snippets share the highest frequency
\* removes nothing and moves on to the next smaller length, also when that
\* frequency reaches the slogan threshold.
C5_TieRemovesNothing ==
    [][(Scanning /\ TwoMostFrequentEqual(text, Top.snippet_size)) =>
           /\ text' = text
           /\ pc' = "loop"
           /\ Len(stack') = Len(stack)
           /\ stack'[Len(stack')].snippet_size = Top.snippet_size - 1
           /\ stack'[Len(stack')].entry_len = Top.entry_len]_vars

C5_Witness ==
    /\ pc = "loop"
    /\ last_step.kind = "tie"
    /\ text = last_step.before
    /\ TwoMostFrequentEqual(text, last_step.size)
    /\ ~BelowThreshold(last_step.entry_len, last_step.count)

\* C6: after a removal at length L the recursive call starts at L - 1, and
\* no snippet length is enumerated twice on the same text.
C6_NoLengthScannedTwice ==
    /\ JustRemoved => start_size = <<last_step.size - 1>>
    /\ Scanning => <<text, Top.snippet_size>> \notin scanned

(***************************************************************************)
(* Properties of clean_pdf_text.                                           *)
(***************************************************************************)

\* C7: clean_pdf_text is idempotent on its own output:
\* clean_pdf_text(clean_pdf_text(x)) = clean_pdf_text(x) for every text x.
C7_CleanIsIdempotent ==
    cl_rule = 12 => cl_again = cl_text

\* C8: no rule brings back a pattern that an earlier rule had eliminated:
\* after rule k the text has no match of a pattern j < k that had no match
\* left after rule j.
C8_NoPatternReintroduced ==
    cl_rule \in 1..10 => \A j \in cl_gone : ~HasMatch(j, cl_text)

(***************************************************************************)
(* Properties of retrieve_text_from_pdf and create_doc_from_text.          *)
(***************************************************************************)

Range(s) == {s[k] : k \in DOMAIN s}

\* The state the last call started from, and the program it was made on.
Pre == pl_last.before

Callee == pl_last.program

Untouched ==
    /\ programs = Pre.programs
    /\ text_file = Pre.text_file
    /\ doc_file = Pre.doc_file
    /\ extractions = Pre.extractions

\* The no-op half of C9 on its own: a retrieve_text_from_pdf call on a
\* program whose text is in memory changes nothing and calls nothing.
RetrieveInMemoryIsNoOp ==
    (pl_last.op = "retrieve_text_from_pdf" /\ Pre.programs[Callee].text # None)
        => Untouched /\ calls = <<>> /\ pl_last.outcome = "returned"

\* C9: retrieve_text_from_pdf is a no-op when the text is already in memory
\* (text, annotation and cache files unchanged, no extraction), and over any
\* sequence of retrieve_text_from_pdf calls on one document the PDF
\* extraction is invoked at most once.
C9_NoOpAndExtractedAtMostOnce ==
    /\ RetrieveInMemoryIsNoOp
    /\ \A i \in DOMAIN programs : extractions[i] <= 1

\* C10: a retrieve_text_from_pdf call on a program without text in memory,
\* whose text cache file exists, with force-reprocessing disabled, returns
\* with the text set to exactly the content of that file, calls neither the
\* PDF extraction nor the slogan remover nor the cleaner, and writes no
\* file; a create_doc_from_text call on a program with its text but not its
\* doc in memory, whose doc cache file exists, with force-reprocessing
\* disabled, returns with the doc set to exactly the content of that file,
\* calls neither nlp nor to_disk, and writes no file.
C10_CacheShortCircuits ==
    /\ (/\ pl_last.op = "retrieve_text_from_pdf"
        /\ Pre.programs[Callee].text = None
        /\ Pre.text_file[reference(Pre.programs[Callee], txt)] # None
        /\ ~force)
        => /\ pl_last.outcome = "returned"
           /\ programs = [Pre.programs EXCEPT
                  ![Callee].text = Pre.text_file[reference(Pre.programs[Callee], txt)]]
           /\ Range(calls) \cap {"extract_text_pdf", "_remove_repeating_slogans",
                                 "clean_pdf_text", "write"} = {}
           /\ extractions = Pre.extractions
           /\ text_file = Pre.text_file
           /\ doc_file = Pre.doc_file
    /\ (/\ pl_last.op = "create_doc_from_text"
        /\ Pre.programs[Callee].doc = None
        /\ Pre.programs[Callee].text # None
        /\ Pre.doc_file[reference(Pre.programs[Callee], spacy)] # None
        /\ ~force)
        => /\ pl_last.outcome = "returned"
           /\ programs = [Pre.programs EXCEPT
                  ![Callee].doc = Pre.doc_file[reference(Pre.programs[Callee], spacy)]]
           /\ Range(calls) \cap {"nlp", "to_disk"} = {}
           /\ extractions = Pre.extractions
           /\ text_file = Pre.text_file
           /\ doc_file = Pre.doc_file

\* A text was read from a cache file that holds something other than what
\* the PDF of the program gives, and the PDF was not extracted.
C10_Witness ==
    /\ pl_last.op = "retrieve_text_from_pdf"
    /\ ~force
    /\ Pre.programs[Callee].text = None
    /\ Pre.text_file[reference(Pre.programs[Callee], txt)] = <<StaleText>>
    /\ programs[Callee].text = <<StaleText>>
    /\ extractions[Callee] = 0

\* The last call was retrieve_text_from_pdf on a program without text in
\* memory, with no text cache file or with force-reprocessing set.
RetrievedWithoutCache ==
    /\ pl_last.op = "retrieve_text_from_pdf"
    /\ Pre.programs[Callee].text = None
    /\ (Pre.text_file[reference(Pre.programs[Callee], txt)] = None \/ force)

\* What C11 says of such a call.
ExtractedCleanedStoredAndWritten ==
    /\ pl_last.outcome = "returned"
    /\ calls = <<"exists", "extract_text_pdf", "_remove_repeating_slogans",
                 "clean_pdf_text", "write">>
    /\ programs[Callee].text =
          <<clean_pdf_text(remove_repeating_slogans(
                extract_text_pdf(programs[Callee].path), None).text)>>
    /\ text_file[reference(programs[Callee], txt)] = programs[Callee].text

\* C11 where the slogan remover returns: the three functions run in the
\* order extraction, slogan remover, cleaner, and the result is stored and
\* written.
RetrieveFromPdfWhenSlogansReturn ==
    (RetrievedWithoutCache /\ pl_last.outcome # "IndexError")
        => ExtractedCleanedStoredAndWritten

\* C11: a retrieve_text_from_pdf call on a program without text in memory,
\* with no text cache file or with force-reprocessing set, runs the PDF
\* extraction, then the slogan remover, then the cleaner, stores the result
\* in memory and writes it, so that the cache file holds the in-memory text.
C11_ExtractsCleansAndPersists ==
    RetrievedWithoutCache => ExtractedCleanedStoredAndWritten

\* C12: a create_doc_from_text call on a program with neither text nor doc
\* in memory ends in ValueError and leaves the programs and both caches as
\* they were, whether or not the doc cache file exists.
C12_NoTextIsAnError ==
    (/\ pl_last.op = "create_doc_from_text"
     /\ Pre.programs[Callee].text = None
     /\ Pre.programs[Callee].doc = None)
        => pl_last.outcome = "ValueError" /\ Untouched /\ calls = <<>>

\* The call failed although a doc cache file was there and could be used.
C12_Witness ==
    /\ pl_last.op = "create_doc_from_text"
    /\ pl_last.outcome = "ValueError"
    /\ Pre.programs[Callee].text = None
    /\ Pre.doc_file[reference(Pre.programs[Callee], spacy)] # None
    /\ ~force

\* C13: a program with its doc in memory has its text in memory.
C13_DocImpliesText ==
    \A i \in DOMAIN programs : programs[i].doc # None => programs[i].text # None

\* create_doc_from_text has just put the doc of a program in memory.
C13_Witness ==
    \E i \in DOMAIN programs :
        /\ programs[i].doc # None
        /\ programs[i].text # None
        /\ pl_last.op = "create_doc_from_text"
        /\ pl_last.program = i
        /\ pl_last.outcome = "returned"
        /\ Pre.programs[i].doc = None

(***************************************************************************)
(* Properties of process_all_programs and the query API.                   *)
(***************************************************************************)

\* _programs_processed says what it is meant to say.
FlagMeansCompleted == processed = completed

\* C14: a call of get_all_programs, get_programs or get_specific_program
\* made when no call of process_all_programs has run to its end (none was
\* made, one is running, or the last one was left by an exception) ends in
\* RuntimeError and returns nothing.
C14_QueryBeforeCompletionFails ==
    (query.fn # "none" /\ ~query.completed)
        => query.outcome = "RuntimeError" /\ query.result = <<>>

\* The query API was called after process_all_programs was left by an
\* exception, and failed.
C14_Witness ==
    /\ query.fn = "get_all_programs"
    /\ query.outcome = "RuntimeError"
    /\ batch.raised
    /\ batch.pc = "idle"
    /\ batch.called # {}

\* C15: when the processing of a program raises in process_all_programs,
\* the call ends there with that exception: the programs processed in the
\* call are those up to the failing one in the list order and no later one,
\* _programs_processed is still False, and a call of the query API fails
\* with RuntimeError.
C15_FailureAbortsTheBatch ==
    batch.raised
        => /\ batch.pc = "idle"
           /\ pl_last.outcome = "IndexError"
           /\ pl_last.program = order[batch.pos]
           /\ batch.called = {order[k] : k \in 1..batch.pos}
           /\ ~processed
           /\ (query.fn # "none" => query.outcome = "RuntimeError")

\* The first program of the list raised; the second one was not touched
\* and get_programs fails.
C15_Witness ==
    /\ batch.raised
    /\ batch.pos = 1
    /\ Len(order) > 1
    /\ programs[order[2]].text = None
    /\ query.fn = "get_programs"
    /\ query.outcome = "RuntimeError"

\* x is one of the parties of the issuer name: a piece of the name between
\* its ends and its "+" signs.
IsMember(x, name) ==
    /\ \A k \in DOMAIN x : x[k] # "+"
    /\ \E i \in 1..(Len(name) + 1) :
          /\ i = 1 \/ name[i - 1] = "+"
          /\ i + Len(x) - 1 <= Len(name)
          /\ SubSeq(name, i, i + Len(x) - 1) = x
          /\ i + Len(x) - 1 = Len(name) \/ name[i + Len(x)] = "+"

\* The program matches every filter that is given.
Matches(p, a) ==
    /\ a.election_type # None => p.election_type = a.election_type[1]
    /\ a.party # None => IsMember(a.party[1], p.party)
    /\ a.election_date # None => p.election_date = a.election_date[1]
    /\ a.joined_issue <=> (\E k \in DOMAIN p.party : p.party[k] = "+")
    /\ a.tags # None => Range(a.tags[1]) \subseteq Range(p.tags)

Matching(a) == {i \in Range(order) : Matches(programs[i], a)}

\* C16: after process_all_programs has run to its end, get_programs returns
\* exactly the programs that match every given filter, each once, and ends
\* in ValueError when none matches; get_specific_program returns one
\* program that matches, and ends in ValueError when none matches.
C16_QueryReturnsTheMatches ==
    /\ (query.fn = "get_programs" /\ query.completed)
        => IF Matching(query.args) = {}
           THEN query.outcome = "ValueError"
           ELSE /\ query.outcome = "returned"
                /\ Range(query.result) = Matching(query.args)
                /\ Len(query.result) = Cardinality(Matching(query.args))
    /\ (query.fn = "get_specific_program" /\ query.completed)
        => IF Matching(query.args) = {}
           THEN query.outcome = "ValueError"
           ELSE /\ query.outcome = "returned"
                /\ Len(query.result) = 1
                /\ query.result[1] \in Matching(query.args)

\* get_programs, given a party, has returned some of the programs and left
\* others out.
C16_Witness ==
    /\ query.fn = "get_programs"
    /\ query.completed
    /\ query.outcome = "returned"
    /\ query.args.party # None
    /\ Len(query.result) < Len(order)

\* get_programs() called without arguments.
NoArguments ==
    [election_type |-> None, party |-> None, election_date |-> None,
     joined_issue |-> FALSE, tags |-> None]

\* C17: after process_all_programs has run to its end, get_programs called
\* without arguments returns all programs, the same set as
\* get_all_programs returns.
C17_NoArgumentsReturnsAll ==
    (query.fn = "get_programs" /\ query.completed /\ query.args = NoArguments)
        => query.outcome = "returned" /\ Range(query.result) = Range(order)

(***************************************************************************)
(* Properties of the path parser.                                          *)
(***************************************************************************)

\* #tag1#tag2...
RECURSIVE TagsWritten(_)
TagsWritten(tags) ==
    IF tags = <<>> THEN <<>> ELSE <<"#">> \o Head(tags) \o TagsWritten(Tail(tags))

\* .../manifests/<type>/<date>/<party>[#tag...].pdf
PathOfTheForm(type, date, party, tags) ==
    ManifestDir \o type \o <<sep>> \o date \o <<sep>> \o party \o TagsWritten(tags) \o dot_pdf

\* The <type> and the file name (without ".pdf") a path of ParserPaths was
\* written with: two characters after the directory, and what follows the
\* four characters of the date and its separators.
TypeWritten == SubSeq(file_path, Len(ManifestDir) + 1, Len(ManifestDir) + 2)

NameWritten == SubSeq(file_path, Len(ManifestDir) + 7, Len(file_path) - Len(dot_pdf))

\* The <party> of a file name: what stands before its first "#".
PartyWritten ==
    LET hashes == {k \in DOMAIN NameWritten : NameWritten[k] = "#"} IN
    IF hashes = {} THEN NameWritten
    ELSE SubSeq(NameWritten, 1, (CHOOSE k \in hashes : \A j \in hashes : k <= j) - 1)

\* The pieces between the "#" of the file name, after the party.
PiecesWritten == Tail(Split(NameWritten, "#"))

\* The file name is <party>[#tag...]: every "#" is followed by a tag of one
\* or more word characters that ends at the next "#" or at the end of the
\* name, and the party does not end in white space.
NameOfTheForm ==
    /\ \A k \in DOMAIN PiecesWritten :
          PiecesWritten[k] # <<>> /\ \A j \in DOMAIN PiecesWritten[k] : PiecesWritten[k][j] \in NameWord
    /\ (PartyWritten = <<>> \/ PartyWritten[Len(PartyWritten)] \notin NameSpace)

\* C18: for a path .../manifests/<type>/<date>/<party>[#tag...].pdf, where
\* every tag is a word that follows its "#", extractor_type_date_party_tags
\* gives election_type = <type>, election_date = <date>, party = <party>
\* (the file name without ".pdf" and without the tags) and tags = the tag
\* words in the order of the file name, the empty list when there is no "#".
C18_PathParsedByPosition ==
    (parsed.fn = "extractor_type_date_party_tags" /\ NameOfTheForm)
        => /\ file_path = PathOfTheForm(TypeWritten, <<"2", "1">>, PartyWritten, PiecesWritten)
           /\ parsed.result = [election_type |-> TypeWritten,
                               election_date |-> <<"2", "1">>,
                               party |-> PartyWritten,
                               tags |-> PiecesWritten]

\* A file name with a party and two tags has been parsed.
C18_Witness ==
    /\ parsed.fn = "extractor_type_date_party_tags"
    /\ file_path = PathOfTheForm(<<"T", "K">>, <<"2", "1">>, <<"V">>, << <<"V">>, <<"V">> >>)
    /\ parsed.result.party = <<"V">>
    /\ Len(parsed.result.tags) = 2

(***************************************************************************)
(* Properties of the discovery.                                            *)
(***************************************************************************)

\* The path segment right after "manifests" of a walked file.
AbbreviationWritten(p) ==
    LET from == Len(ManifestDir) + 1
        seps == {k \in from..Len(p) : p[k] = sep}
    IN  SubSeq(p, from, IF seps = {} THEN Len(p)
                        ELSE (CHOOSE k \in seps : \A j \in seps : k <= j) - 1)

\* The walked files that are pdfs of an unregistered election type.
Unregistered ==
    {k \in DOMAIN walk :
        /\ SubSeq(walk[k], Len(walk[k]) - 3, Len(walk[k])) = dot_pdf
        /\ AbbreviationWritten(walk[k]) \notin {<<"T", "K">>}}

FirstUnregistered == CHOOSE k \in Unregistered : \A j \in Unregistered : k <= j

\* C19: when a walked pdf has an election-type abbreviation without a
\* registered path parser, identify_programs never returns a list and never
\* goes past the first such file: it ends there with NotImplementedError,
\* whatever programs it had found before.
C19_UnknownTypeAbortsDiscovery ==
    Unregistered # {}
        => /\ discovery.pc # "returned"
           /\ discovery.result = None
           /\ discovery.pos <= FirstUnregistered
           /\ discovery.pos = FirstUnregistered
                 => \/ discovery.pc = "walking" /\ discovery.raised = "no"
                    \/ discovery.pc = "raised" /\ discovery.raised = "NotImplementedError"
           /\ discovery.pc = "raised" => discovery.pos = FirstUnregistered

\* identify_programs has raised after it had found a program.
C19_Witness ==
    /\ discovery.pc = "raised"
    /\ discovery.raised = "NotImplementedError"
    /\ found_programs # <<>>
    /\ discovery.result = None

(***************************************************************************)
(* Properties of the metrics.                                              *)
(***************************************************************************)

\* The relative metrics per sentence.
PerSentence ==
    {"average_words_per_sentence", "average_characters_per_sentence",
     "average_syllables_per_sentence", "average_of_nouns_per_sentence",
     "average_of_verbs_per_sentence", "average_tree_depth_per_sentence"}

\* C20: on a document with zero sentences each of the six per-sentence
\* relative metrics raises (ZeroDivisionError, the error of the division
\* itself) and returns no value; on a document with a sentence it returns a
\* value.
C20_NoSentencesIsAnError ==
    m_result.fn \in PerSentence
        => IF m_doc = <<>>
           THEN m_result.raised = "ZeroDivisionError" /\ m_result.value = None
           ELSE m_result.raised = "no" /\ m_result.value # None

\* average_tree_depth_per_sentence has been called on a document without
\* sentences.
C20_Witness ==
    /\ m_doc = <<>>
    /\ m_result.fn = "average_tree_depth_per_sentence"
    /\ m_result.raised = "ZeroDivisionError"

\* C21: number_of_pages returns the number of alphabetic characters divided
\* by the characters per page and rounded up: the smallest p with
\* p * characters_per_page >= number_of_characters, so that an exact
\* multiple adds no page.
C21_PagesRoundedUp ==
    m_result.fn = "number_of_pages"
        => LET p == m_result.value[1]
               n == number_of_characters(m_doc)
           IN  /\ m_result.raised = "no"
               /\ p \in Nat
               /\ p * characters_per_page >= n
               /\ \A q \in 0..(p - 1) : q * characters_per_page < n

\* number_of_pages has been called on a document of exactly two full pages.
C21_Witness ==
    /\ m_result.fn = "number_of_pages"
    /\ number_of_characters(m_doc) = 2 * characters_per_page
    /\ m_result.value = <<2>>

\* C22: number_of_unique_words and number_of_complex_words each return at
\* most number_of_words of the same document.
C22_UniqueAndComplexAtMostWords ==
    m_result.fn \in {"number_of_unique_words", "number_of_complex_words"}
        => m_result.raised = "no" /\ m_result.value[1] <= number_of_words(m_doc)

\* number_of_unique_words has been called on a document that repeats a word
\* and has a token that is not a word.
C22_Witness ==
    /\ m_result.fn = "number_of_unique_words"
    /\ m_result.value[1] < number_of_words(m_doc)
    /\ number_of_words(m_doc) < Len(TokensOf(m_doc))
    /\ number_of_complex_words(m_doc) > 0

(***************************************************************************)
(* Properties of the cache file names.                                     *)
(***************************************************************************)

Named == ref_names # NoNames

SameFields(p, q) ==
    /\ p.election_type = q.election_type
    /\ p.party = q.party
    /\ p.election_date = q.election_date

C27_DistinctProgramsDistinctNames ==
    (Named /\ (~SameFields(ref_of[1], ref_of[2])
                 \/ Range(ref_of[1].tags) # Range(ref_of[2].tags)))
        => ref_names.names[1] # ref_names.names[2]

\* C28: a program that has both its text and its doc in memory has the doc
\* nlp makes of that text.
C28_DocIsOfTheText ==
    \A i \in DOMAIN programs :
        (programs[i].text # None /\ programs[i].doc # None)
            => programs[i].doc[1] = nlp(programs[i].text[1])

(***************************************************************************)
(* Further properties of the slogan remover.                               *)
(***************************************************************************)

\* The step just taken enumerated the snippets of last_step.before.
JustScanned == last_step.kind \in {"raise", "tie", "below", "remove"}

\* C24: the count of the most common snippet at a snippet length is the
\* number of all window positions 1 .. len(text) - L + 1 of the text where
\* the snippet stands, the window that ends at the last character included.
C24_EveryWindowCounted ==
    (JustScanned /\ last_step.count > 0)
        => last_step.count =
              Cardinality({i \in 1..(Len(last_step.before) - last_step.size + 1) :
                              OccursAt(last_step.before, last_step.snippet, i)})

\* C25: no snippet enumeration and no removal happens on a text shorter
\* than one page.
C25_NoScanBelowOnePage ==
    JustScanned => Len(last_step.before) >= characters_per_page

\* The program has its text and its doc in memory.
InMemory(i) == programs[i].text # None /\ programs[i].doc # None

\* C26: when _programs_processed is True every program of _programs, and so
\* every program a function of the query API has returned, has both its
\* text and its doc in memory.
C26_ProcessedMeansAllInMemory ==
    /\ processed => \A i \in DOMAIN programs : InMemory(i)
    /\ query.outcome = "returned" => \A k \in DOMAIN query.result : InMemory(query.result[k])

\* A batch that had to make a text from its PDF has completed, and the
\* query API has returned all programs.
C26_Witness ==
    /\ processed
    /\ \E i \in DOMAIN programs : extractions[i] > 0
    /\ query.fn = "get_all_programs"
    /\ query.outcome = "returned"
    /\ Len(query.result) = Len(programs)

====
